---------------------------- MODULE Spec2Model ----------------------------
(***************************************************************************)
(* Model of the multi-threaded frame builder                               *)
(* (src/src/e2sar_reassembler_framebuilder.cpp): the FrameBuilder facade,  *)
(* its BuilderThread workers with their per-thread frame buffers, the      *)
(* EVIO-6 record encoder and the ET / file sinks.                          *)
(*                                                                         *)
(* Integers of the program are kept at their width.  TLC's integers are    *)
(* 32-bit, so a uint64_t is a tuple of four 16-bit limbs (least            *)
(* significant first) and a uint32_t is a pair <<high 16 bits, low 16      *)
(* bits>>.  The host is little-endian, as the code's reinterpret_casts and *)
(* its "byte swap to BIG endian" assume.                                   *)
(***************************************************************************)
EXTENDS Integers, Sequences, FiniteSets, TLC

\* ------------------------------------------------------------------------
\* Fixed-width arithmetic
\* ------------------------------------------------------------------------

\* 2^16, the limb base.
LimbBase == 256 * 256

\* A uint64_t from a natural number below 2^31.
U64(n) == <<n % LimbBase, n \div LimbBase, 0, 0>>

\* uint64_t addition, wrapping modulo 2^64 ("total += slice.timestamp").
U64Add(a, b) ==
    LET s1 == a[1] + b[1]
        s2 == a[2] + b[2] + (s1 \div LimbBase)
        s3 == a[3] + b[3] + (s2 \div LimbBase)
        s4 == a[4] + b[4] + (s3 \div LimbBase)
    IN  <<s1 % LimbBase, s2 % LimbBase, s3 % LimbBase, s4 % LimbBase>>

\* uint64_t subtraction a - b for a >= b.
U64Sub(a, b) ==
    LET d1 == a[1] - b[1]
        w1 == IF d1 < 0 THEN 1 ELSE 0
        d2 == a[2] - b[2] - w1
        w2 == IF d2 < 0 THEN 1 ELSE 0
        d3 == a[3] - b[3] - w2
        w3 == IF d3 < 0 THEN 1 ELSE 0
        d4 == a[4] - b[4] - w3
    IN  <<d1 % LimbBase, d2 % LimbBase, d3 % LimbBase, d4 % LimbBase>>

\* a < b on uint64_t.
U64Less(a, b) ==
    \/ a[4] < b[4]
    \/ a[4] = b[4] /\ a[3] < b[3]
    \/ a[4] = b[4] /\ a[3] = b[3] /\ a[2] < b[2]
    \/ a[4] = b[4] /\ a[3] = b[3] /\ a[2] = b[2] /\ a[1] < b[1]

U64Min(a, b) == IF U64Less(b, a) THEN b ELSE a

U64Max(a, b) == IF U64Less(a, b) THEN b ELSE a

\* uint64_t divided by a small positive integer (k < 2^15): long division.
U64Div(a, k) ==
    LET q4 == a[4] \div k
        t3 == (a[4] % k) * LimbBase + a[3]
        q3 == t3 \div k
        t2 == (t3 % k) * LimbBase + a[2]
        q2 == t2 \div k
        t1 == (t2 % k) * LimbBase + a[1]
        q1 == t1 \div k
    IN  <<q1, q2, q3, q4>>

\* uint64_t modulo a small positive integer (k < 2^15).
U64Mod(a, k) ==
    LET t3 == (a[4] % k) * LimbBase + a[3]
        t2 == (t3 % k) * LimbBase + a[2]
        t1 == (t2 % k) * LimbBase + a[1]
    IN  t1 % k

\* A uint32_t from a natural number below 2^31.
U32(n) == <<n \div LimbBase, n % LimbBase>>

\* The four bytes of a uint32_t, most significant first: what the
\* little-endian host stores for the byte-swapped word.
WordBE(w) == <<w[1] \div 256, w[1] % 256, w[2] \div 256, w[2] % 256>>

\* The uint32_t the little-endian host reads at byte offset off (0-based).
WordAt(bytes, off) ==
    <<bytes[off + 4] * 256 + bytes[off + 3], bytes[off + 2] * 256 + bytes[off + 1]>>

\* The one element of a singleton set.
The(S) == CHOOSE x \in S : TRUE

\* The bytes of a sequence of uint32_t words, each most significant first.
WordsBE(words) ==
    The({ [i \in 1..(4 * Len(w)) |-> WordBE(w[((i - 1) \div 4) + 1])[((i - 1) % 4) + 1]] :
          w \in {words} })

\* The concatenation of ss[lo], ..., ss[hi], computed by halves so that the
\* depth of the evaluation stays small for long sequences.
RECURSIVE FlattenRange(_, _, _)
FlattenRange(ss, lo, hi) ==
    IF lo > hi THEN <<>>
    ELSE IF lo = hi THEN ss[lo]
    ELSE The({ a \o b : a \in {FlattenRange(ss, lo, (lo + hi) \div 2)},
                        b \in {FlattenRange(ss, ((lo + hi) \div 2) + 1, hi)} })

\* The concatenation of a sequence of byte sequences.
Flatten(ss) == FlattenRange(ss, 1, Len(ss))

\* The sum of the function f over lo..hi, computed by halves.
RECURSIVE SumRange(_, _, _)
SumRange(f, lo, hi) ==
    IF lo > hi THEN 0
    ELSE IF lo = hi THEN f[lo]
    ELSE The({ a + b : a \in {SumRange(f, lo, (lo + hi) \div 2)},
                       b \in {SumRange(f, ((lo + hi) \div 2) + 1, hi)} })

Zeros(n) == [i \in 1..n |-> 0]


\* ------------------------------------------------------------------------
\* Configuration (arguments of the FrameBuilder constructor)
\* ------------------------------------------------------------------------

\* numBuilderThreads: the number of builder threads (shards).
builderThreadCount == 2

\* numExpectedStreams: slices a frame is expected to carry.
expectedStreamCount == 2

\* timeout: frame timeout in milliseconds.
frameTimeoutMs == 1

\* tsSlop: largest tolerated spread of the slice timestamps of one frame.
timestampSlop == 10

Threads == 0..(builderThreadCount - 1)

\* ------------------------------------------------------------------------
\* Data model
\* ------------------------------------------------------------------------

\* A slip assign could make: the last byte is not copied.
assignShort(data, len) == SubSeq(data, 1, len - 1)

\* payload.assign(data, data + len): the vector takes a copy of the len
\* bytes at data, as they are at the time of the call.
assign(data, len) == SubSeq(data, 1, len)

\* TimeSlice(ts, frame, id, data, len): streamStatus is always 0 and the
\* payload is a copy of the caller's bytes.
TimeSlice(ts, frame, id, data) ==
    [timestamp |-> ts, frameNumber |-> frame, dataId |-> id,
     streamStatus |-> 0, payload |-> assign(data, Len(data))]

\* A default-constructed AggregatedFrame: timestamp 0, no slices, and
\* arrivalTime = now, kept as the time elapsed since arrivalTime.
AggregatedFrame == [timestamp |-> U64(0), frameNumber |-> 0, slices |-> <<>>, elapsed |-> 0]

\* AggregatedFrame::isTimedOut
isTimedOut(frame, timeoutMs) == frame.elapsed > timeoutMs

\* The magic word 0xc0da0100 and its byte-reversed form 0x0001dac0.
Magic == <<49370, 256>>

MagicSwapped == <<1, 56000>>

\* ------------------------------------------------------------------------
\* BuilderThread::checkTimestampConsistency, calculateAverageTimestamp
\* ------------------------------------------------------------------------

\* Op applied to the timestamps of slices[lo], ..., slices[hi] from left to
\* right.  Op is associative (a minimum, a maximum, an addition modulo 2^64),
\* so the result of the loop is computed by halves, which keeps the depth of
\* the evaluation small for long frames.
RECURSIVE TsRange(_, _, _, _)
TsRange(Op(_, _), slices, lo, hi) ==
    IF lo = hi THEN slices[lo].timestamp
    ELSE The({ Op(a, b) : a \in {TsRange(Op, slices, lo, (lo + hi) \div 2)},
                          b \in {TsRange(Op, slices, ((lo + hi) \div 2) + 1, hi)} })

\* The loop "for (const auto& slice : frame.slices) acc = Op(acc, slice.timestamp)".
TsFold(Op(_, _), acc, slices) ==
    IF slices = <<>> THEN acc
    ELSE Op(acc, The({TsRange(Op, slices, 1, Len(slices))}))

checkTimestampConsistency(frame) ==
    IF frame.slices = <<>> THEN FALSE
    ELSE LET tsMin == TsFold(U64Min, frame.slices[1].timestamp, frame.slices)
             tsMax == TsFold(U64Max, frame.slices[1].timestamp, frame.slices)
         IN  U64Less(U64(timestampSlop), U64Sub(tsMax, tsMin))

calculateAverageTimestamp(frame) ==
    IF frame.slices = <<>> THEN U64(0)
    ELSE U64Div(TsFold(U64Add, U64(0), frame.slices), Len(frame.slices))

\* ------------------------------------------------------------------------
\* BuilderThread::buildEVIO6Frame
\* ------------------------------------------------------------------------

\* The per-slice check of step 1: at least 32 bytes and word 7 is the magic
\* in either byte order.
SliceValid(slice) ==
    /\ Len(slice.payload) >= 32
    /\ WordAt(slice.payload, 28) \in {Magic, MagicSwapped}

\* A slip RocBanks could make: 28 bytes are stripped instead of 32.
RocBanksShortStrip(frame) ==
    LET kept == SelectSeq(frame.slices, SliceValid)
    IN  [i \in 1..Len(kept) |-> SubSeq(kept[i].payload, 29, Len(kept[i].payload))]

\* The stripped ROC banks of the slices that pass the check, in order.
RocBanks(frame) ==
    LET kept == SelectSeq(frame.slices, SliceValid)
    IN  [i \in 1..Len(kept) |-> SubSeq(kept[i].payload, 33, Len(kept[i].payload))]

\* A ROC bank followed by its zero padding to a 4-byte boundary.
PaddedBank(bank) == bank \o Zeros((4 - (Len(bank) % 4)) % 4)

\* A slip streamStatus could make: the slice count is left out of the byte.
streamStatusFlagOnly(hasError, sliceCount) == IF hasError THEN 128 ELSE 0

\* Line 365: bit 7 = error flag, bits 0-6 = slice count.
streamStatus(hasError, sliceCount) ==
    (IF hasError THEN 128 ELSE 0) + (sliceCount % 128)

\* A slip recordHeader could make: a compression type in word 9.
recordHeaderCompressed ==
    << U32(0), U32(0), U32(14), U32(1), U32(0), <<32768, 16902>>,
       U32(0), Magic, U32(0), U32(1), U32(0), U32(0), U32(0), U32(0) >>

\* Lines 406-432: the 14 words of the record header as pushed, recordLength
\* (word 0) and uncompressedDataLength (word 8) still 0.
recordHeader ==
    << U32(0),                  \* word 0: recordLength
       U32(0),                  \* word 1: recordNumber
       U32(14),                 \* word 2: headerLength
       U32(1),                  \* word 3: eventIndexCount
       U32(0),                  \* word 4: indexArrayLength
       <<32768, 16902>>,        \* word 5: 6 | 1<<9 | 1<<14 | 1<<31
       U32(0),                  \* word 6: userHeaderLength
       Magic,                   \* word 7: magic number
       U32(0),                  \* word 8: uncompressedDataLength
       U32(0),                  \* word 9: compression
       U32(0), U32(0), U32(0), U32(0) >>

\* A slip totalPayloadBytes could make: the padding is not counted.
totalPayloadBytesUnpadded(rocBanks) ==
    SumRange([i \in 1..Len(rocBanks) |-> Len(rocBanks[i])], 1, Len(rocBanks))

\* Lines 487-494: the sizes of the ROC banks, each rounded up to 4 bytes.
totalPayloadBytes(rocBanks) ==
    SumRange([i \in 1..Len(rocBanks) |->
                 Len(rocBanks[i])
                 + (IF Len(rocBanks[i]) % 4 # 0 THEN 4 - (Len(rocBanks[i]) % 4) ELSE 0)],
             1, Len(rocBanks))

\* The value the function returns and what it leaves in `output`:
\*   ok       the return value, !hasError
\*   tsError  whether timestampErrors was incremented
\*   output   the bytes of the record (empty when no ROC bank is kept)
buildEVIO6Frame(frame) ==
    The({
      LET sliceCount == Len(frame.slices)
          status == streamStatus(tsError, sliceCount)
          hasError == tsError \/ Len(rocBanks) < sliceCount
          \* eventWords as pushed, the length fields still 0
          pushed ==
              recordHeader
              \o
              << U32(0),                              \* aggregatedBankLength
                 <<65376, 4096 + status>>,            \* 0xFF60 | BANK | status
                 U32(0),                              \* streamInfoLength
                 <<65329, 8192 + status>>,            \* 0xFF31 | SEGMENT | status
                 <<12801, 3>>,                        \* TSS header 0x32 01 0003
                 U32(frame.frameNumber),
                 <<tsAvg[2], tsAvg[1]>>,              \* timestamp low
                 <<tsAvg[4], tsAvg[3]>>,              \* timestamp high
                 <<16897, sliceCount>> >>             \* AIS header 0x42 01 count
              \o [i \in 1..sliceCount |->
                     <<frame.slices[i].dataId, frame.slices[i].streamStatus>>]
          aggregatedBankLengthIndex == 14
          streamInfoLengthIndex == 16
          streamInfoLength == Len(pushed) - streamInfoLengthIndex - 1
          totalPayloadWords == payloadBytes \div 4
          aggregatedBankLength ==
              (Len(pushed) - aggregatedBankLengthIndex - 1) + totalPayloadWords
          recordLength == 14 + aggregatedBankLength + 1
          uncompressedDataLength == recordLength - 14
          eventWords ==
              [pushed EXCEPT ![streamInfoLengthIndex + 1] = U32(streamInfoLength),
                             ![aggregatedBankLengthIndex + 1] = U32(aggregatedBankLength),
                             ![1] = U32(recordLength),
                             ![9] = U32(uncompressedDataLength)]
          \* step 8: every ROC bank is appended and padded
          padded == Flatten([i \in 1..Len(rocBanks) |-> PaddedBank(rocBanks[i])])
      IN  IF Len(rocBanks) = 0
          THEN [ok |-> FALSE, tsError |-> tsError, output |-> <<>>]
          ELSE [ok |-> ~hasError, tsError |-> tsError,
                output |-> WordsBE(eventWords) \o padded] :
      \* the locals the function computes once
      tsError \in {checkTimestampConsistency(frame)},
      tsAvg \in {calculateAverageTimestamp(frame)},
      rocBanks \in {RocBanks(frame)},
      payloadBytes \in {totalPayloadBytes(RocBanks(frame))} })

\* ------------------------------------------------------------------------
\* Bounds and inputs of the model
\* ------------------------------------------------------------------------

\* At most this many addTimeSlice calls are made.
MaxSlices == 2

\* 28 zero bytes, then word 7 as the little-endian host stores it.
Prefix(word7) ==
    Zeros(28) \o <<word7[2] % 256, word7[2] \div 256, word7[1] % 256, word7[1] \div 256>>

\* Payloads: a valid one (8-word prefix and a 5-byte ROC bank), one in the
\* reversed byte order, one with a wrong word 7, one shorter than 32 bytes.
GoodPayload == Prefix(Magic) \o <<170, 171, 172, 173, 174>>

SwappedPayload == Prefix(MagicSwapped) \o <<187, 188, 189, 190>>

BadMagicPayload == Prefix(U32(0)) \o <<204, 205, 206, 207>>

ShortPayload == Zeros(16)

\* 2^63 + 1 as a uint64_t.
BigTs == <<1, 0, 0, 32768>>

\* The addTimeSlice calls the producers choose from: <<timestamp,
\* frameNumber, dataId, payload>>.  Timestamps 0 and 2 are hashed to builder
\* 0 and timestamp 1 to builder 1; each timestamp is used by two streams.
SliceInputs ==
    { <<U64(0), 7, 1, GoodPayload>>,
      <<U64(0), 8, 2, GoodPayload>>,
      <<U64(2), 7, 1, GoodPayload>>,
      <<U64(2), 8, 2, BadMagicPayload>>,
      <<U64(1), 7, 1, ShortPayload>>,
      <<U64(1), 8, 2, SwappedPayload>> }

\* ------------------------------------------------------------------------
\* State
\* ------------------------------------------------------------------------

VARIABLES
    fbConfig,          \* the FrameBuilder object: whether it is constructed
                       \* and its builderThreadCount
    enableET,          \* FrameBuilder::enableET
    enableFileOutput,  \* FrameBuilder::enableFileOutput
    started,           \* "no", "yes" (start() returned true), "failed"
    etSystem,          \* the ET system handle: "null", "open", "closed"
    etAttachments,     \* FrameBuilder::etAttachments, the ids it holds
    etAttached,        \* the ids the ET system has attached
    fbRunning,         \* FrameBuilder::running
    slicesAggregated,  \* FrameBuilder::slicesAggregated
    fbStats,           \* FrameBuilder's aggregated counters
    stopPc,            \* position of the thread inside FrameBuilder::stop
    stopIdx,           \* index of the builder its loop is at
    stopClock,         \* the least time (ms) stop() has taken so far
    frameBuffer,       \* BuilderThread::frameBuffer, per thread
    frameMutex,        \* whether the builder thread holds frameMutex
    it,                \* the keys the scan iterator has yet to visit
    itValid,           \* whether that iterator is valid: no rehash of
                       \* frameBuffer since it was obtained
    running,           \* BuilderThread::running
    pc,                \* position of each builder thread in threadFunc
    frameCopy,         \* threadFunc's local frameCopy
    builtFrame,        \* threadFunc's local builtFrame
    success,           \* threadFunc's local success
    events,            \* sendToET's events[0]: what became of the ET event
                       \* asked for the frame in hand
    stats,             \* BuilderThread's counters
    thread,            \* std::thread state: "none", "joinable", "detached"
    outputFile,        \* the file sink: stream state, size and number
    disk,              \* the files written, per thread: number -> writes
    etEvents,          \* the events put into the ET system, per attachment
    eventBuf,          \* receiveAndWriteFrames' eventBuf: whether it points to
                       \* a live buffer, and the bytes at that address
    meta,              \* receiveAndWriteFrames' meta
    rxPc,              \* position of the reception loop
    rxStats            \* the receiver's counters

cfgVars == <<fbConfig, enableET, enableFileOutput>>

rxVars == <<eventBuf, meta, rxPc, rxStats>>

fbVars == <<started, etSystem, etAttachments, etAttached, fbRunning, fbStats>>

stopVars == <<stopPc, stopIdx, stopClock>>

bufVars == <<frameBuffer, frameMutex, it, itValid>>

localVars == <<frameCopy, builtFrame, success, events>>

sinkVars == <<outputFile, disk, etEvents>>

vars == <<cfgVars, rxVars, fbVars, slicesAggregated, stopVars, bufVars, running, pc,
          localVars, stats, thread, sinkVars>>

\* EVIOMetadata meta = {0, 0, 0, false, false}
NoMeta == [timestamp |-> U64(0), frameNumber |-> 0, dataId |-> 0,
           valid |-> FALSE, wrongEndian |-> FALSE]

\* The reception loop before its first iteration: eventBuf{nullptr} and the
\* counters at 0.
RxIdle ==
    /\ eventBuf = [live |-> FALSE, bytes |-> <<>>]
    /\ meta = NoMeta
    /\ rxPc = "recv"
    /\ rxStats = [dataFramesReceived |-> 0, payloadValidationErrors |-> 0,
                  wrongEndiannessCount |-> 0]

ZeroStats == [framesBuilt |-> 0, slicesProcessed |-> 0, buildErrors |-> 0,
              timestampErrors |-> 0, filesCreated |-> 0, bytesWritten |-> 0]

\* The state after the construction of a FrameBuilder of builderThreadCount
\* threads.
Init ==
    /\ fbConfig = [state |-> "constructed", builderThreadCount |-> builderThreadCount]
    /\ enableET \in BOOLEAN
    /\ enableFileOutput \in BOOLEAN
    /\ enableET \/ enableFileOutput      \* the constructor throws otherwise
    /\ started = "no"
    /\ etSystem = "null"
    /\ etAttachments = {}
    /\ etAttached = {}
    /\ fbRunning = FALSE
    /\ slicesAggregated = 0
    /\ fbStats = ZeroStats
    /\ stopPc = "idle"
    /\ stopIdx = 0
    /\ stopClock = 0
    /\ frameBuffer = [h \in Threads |-> [k \in {} |-> AggregatedFrame]]
    /\ frameMutex = [h \in Threads |-> FALSE]
    /\ it = [h \in Threads |-> {}]
    /\ itValid = [h \in Threads |-> TRUE]
    /\ running = [h \in Threads |-> FALSE]
    /\ pc = [h \in Threads |-> "none"]
    /\ frameCopy = [h \in Threads |-> AggregatedFrame]
    /\ builtFrame = [h \in Threads |-> <<>>]
    /\ success = [h \in Threads |-> FALSE]
    /\ events = [h \in Threads |-> "none"]
    /\ stats = [h \in Threads |-> ZeroStats]
    /\ thread = [h \in Threads |-> "none"]
    /\ outputFile = [h \in Threads |->
                        [is_open |-> FALSE, fail |-> FALSE, partial |-> 0,
                         currentFileSize |-> 0, currentFileNumber |-> 0]]
    /\ disk = [h \in Threads |-> [n \in {} |-> <<>>]]
    /\ etEvents = [h \in Threads |-> <<>>]
    /\ RxIdle

\* ------------------------------------------------------------------------
\* FrameBuilder::start and FrameBuilder::initializeET
\* ------------------------------------------------------------------------

\* etOutcome: "ok", "openFail", or <<"attachFail", i>> for the attach of
\* thread i failing; dirOk: whether the output directory exists / is created.
Start(etOutcome, dirOk) ==
    /\ started = "no"
    /\ IF enableET /\ etOutcome = "openFail"
       THEN \* et_open failed: return false
            /\ started' = "failed"
            /\ UNCHANGED <<etSystem, etAttachments, etAttached, fbRunning,
                           running, pc, thread>>
       ELSE IF enableET /\ etOutcome # "ok"
       THEN \* attach i failed: detach the earlier ones, close, return false
            /\ started' = "failed"
            /\ etSystem' = "closed"
            /\ etAttachments' = {j \in Threads : j < etOutcome[2]}
            /\ etAttached' = {}
            /\ UNCHANGED <<fbRunning, running, pc, thread>>
       ELSE /\ etSystem' = IF enableET THEN "open" ELSE etSystem
            /\ etAttachments' = IF enableET THEN Threads ELSE etAttachments
            /\ etAttached' = IF enableET THEN Threads ELSE etAttached
            /\ IF enableFileOutput /\ ~dirOk
               THEN \* create_directories failed: return false
                    /\ started' = "failed"
                    /\ UNCHANGED <<fbRunning, running, pc, thread>>
               ELSE \* every BuilderThread is created and started
                    /\ started' = "yes"
                    /\ running' = [h \in Threads |-> TRUE]
                    /\ pc' = [h \in Threads |-> "wait"]
                    /\ thread' = [h \in Threads |-> "joinable"]
                    /\ fbRunning' = TRUE
    /\ UNCHANGED <<cfgVars, rxVars, fbStats, slicesAggregated, stopVars, bufVars,
                   localVars, stats, sinkVars>>

\* ------------------------------------------------------------------------
\* FrameBuilder::addTimeSlice and BuilderThread::addTimeSlice
\* ------------------------------------------------------------------------

\* A slip threadIndex could make: the shard taken from the upper 32 bits of
\* the timestamp.
threadIndexHigh(timestamp) ==
    U64Mod(<<timestamp[3], timestamp[4], 0, 0>>, builderThreadCount)

\* The builder thread a timestamp is hashed to.
threadIndex(timestamp) == U64Mod(timestamp, builderThreadCount)

\* A slip InsertSlice could make: the slice is put in front of the others.
InsertSliceFront(buffer, slice) ==
    LET frame == IF slice.timestamp \in DOMAIN buffer
                 THEN buffer[slice.timestamp] ELSE AggregatedFrame
        keyed == IF frame.timestamp = U64(0)
                 THEN [frame EXCEPT !.timestamp = slice.timestamp,
                                    !.frameNumber = slice.frameNumber,
                                    !.elapsed = 0]
                 ELSE frame
    IN  [keyed EXCEPT !.slices = <<slice>> \o @]

\* Another slip: the entry is created or found, the slice is not added.
InsertSliceNot(buffer, slice) ==
    LET frame == IF slice.timestamp \in DOMAIN buffer
                 THEN buffer[slice.timestamp] ELSE AggregatedFrame
    IN  IF frame.timestamp = U64(0)
        THEN [frame EXCEPT !.timestamp = slice.timestamp,
                           !.frameNumber = slice.frameNumber,
                           !.elapsed = 0]
        ELSE frame

\* Another slip: the slice joins a frame the buffer already holds, whatever
\* its timestamp.
InsertSliceAnyFrame(buffer, slice) ==
    LET frame == IF DOMAIN buffer # {}
                 THEN buffer[CHOOSE k \in DOMAIN buffer : TRUE]
                 ELSE AggregatedFrame
        keyed == IF frame.timestamp = U64(0)
                 THEN [frame EXCEPT !.timestamp = slice.timestamp,
                                    !.frameNumber = slice.frameNumber,
                                    !.elapsed = 0]
                 ELSE frame
    IN  [keyed EXCEPT !.slices = Append(@, slice)]

\* frameBuffer[slice.timestamp] after the insertion of slice.
InsertSlice(buffer, slice) ==
    LET frame == IF slice.timestamp \in DOMAIN buffer
                 THEN buffer[slice.timestamp] ELSE AggregatedFrame
        keyed == IF frame.timestamp = U64(0)
                 THEN [frame EXCEPT !.timestamp = slice.timestamp,
                                    !.frameNumber = slice.frameNumber,
                                    !.elapsed = 0]
                 ELSE frame
    IN  [keyed EXCEPT !.slices = Append(@, slice)]

\* The positions of threadFunc at which the scan iterator is live while
\* frameMutex is released.
ScanSuspended == {"check1", "check2", "etGate", "et_new", "et_put", "check3",
                  "fileGate", "file", "count", "relock"}

\* FrameBuilder::addTimeSlice called with these arguments, whoever the
\* caller is.
addTimeSliceCall(timestamp, frameNumber, dataId, data) ==
    LET h == threadIndex(timestamp)
        slice == TimeSlice(timestamp, frameNumber, dataId, data)
    IN  /\ started = "yes"
        /\ slicesAggregated < MaxSlices
        /\ ~frameMutex[h]                     \* lock_guard(frameMutex)
        /\ frameBuffer' = [frameBuffer EXCEPT ![h] =
               [k \in DOMAIN @ \cup {timestamp} |-> 
                   IF k = timestamp THEN InsertSlice(@, slice) ELSE @[k]]]
        /\ stats' = [stats EXCEPT ![h].slicesProcessed = @ + 1]
        /\ slicesAggregated' = slicesAggregated + 1
        \* A new key lands before or after the position of a suspended scan
        \* (before it when the scan is at the end of the table), and its
        \* insertion may rehash the table (line 127: frameBuffer is an
        \* unordered_map), which invalidates the iterator of the scan.
        /\ IF pc[h] \in ScanSuspended /\ timestamp \notin DOMAIN frameBuffer[h]
           THEN \E ahead \in (IF it[h] = {} THEN {FALSE} ELSE BOOLEAN),
                   rehash \in BOOLEAN :
                   /\ it' = [it EXCEPT ![h] = IF ahead THEN @ \cup {timestamp} ELSE @]
                   /\ itValid' = [itValid EXCEPT ![h] = @ /\ ~rehash]
           ELSE UNCHANGED <<it, itValid>>
        /\ UNCHANGED <<cfgVars, fbVars, stopVars, frameMutex, running, pc,
                       localVars, thread, sinkVars>>

\* addTimeSlice called by a user of the class other than the receiver's
\* reception loop, which stays where it is.
addTimeSlice(timestamp, frameNumber, dataId, data) ==
    /\ addTimeSliceCall(timestamp, frameNumber, dataId, data)
    /\ UNCHANGED rxVars

\* ------------------------------------------------------------------------
\* The file sink: writeFileHeader, openNextFile, writeToFile
\* ------------------------------------------------------------------------

\* The sink rolls over to the next file at this size (2 GB in the code;
\* scaled down to a few records).
maxFileSize == 256

\* The 14-word EVIO-6 file header after htonl.
FileHeader ==
    WordsBE([i \in 1..14 |->
        CASE i = 1 -> <<17750, 18767>>      \* "EVIO"
          [] i = 3 -> U32(14)
          [] i = 6 -> U32(6)
          [] i = 8 -> Magic
          [] OTHER -> U32(0)])

\* The outcomes of the file operations of one writeToFile call: all succeed,
\* or one of them fails.
IoOutcomes == {"ok", "openFail", "headerFail", "writeFail", "writeOneByte",
               "writeAllButOne", "rollOpenFail", "rollHeaderFail"}

\* The outcomes in which the write of the record fails.
WriteFailures == {"writeFail", "writeOneByte", "writeAllButOne"}

\* Lines 288-290: ostream::write fails when the stream buffer accepts fewer
\* bytes than it was given (a full disk, an I/O error), and the bytes it did
\* accept, from none to all but one, are in the file all the same.
accepted(frameData, io) ==
    CASE io = "writeOneByte" -> 1
      [] io = "writeAllButOne" -> Len(frameData) - 1
      [] OTHER -> 0

\* A slip openNextFile could make: the file header is not written.
openNextFileNoHeader(sink, openOk, headerOk) ==
    LET n == sink.file.currentFileNumber
    IN  IF ~openOk
        THEN [sink |-> [sink EXCEPT !.file.is_open = FALSE, !.file.fail = TRUE],
              result |-> FALSE]
        ELSE [sink |-> [sink EXCEPT !.file.is_open = TRUE, !.file.fail = FALSE,
                                    !.file.currentFileSize = 0, !.file.partial = 0,
                                    !.stats.filesCreated = @ + 1,
                                    !.disk = [m \in DOMAIN @ \cup {n} |->
                                                 IF m = n THEN <<>> ELSE @[m]]],
              result |-> TRUE]

\* A file sink is the record
\*   [file: outputFile, disk: the files, stats: the counters],
\* where file.partial counts the bytes of a failed write that reached the
\* open file (disk holds the records written whole),
\* a file being the sequence of the writes made to it.
\* openNextFile returns the sink and its return value.
openNextFile(sink, openOk, headerOk) ==
    LET n == sink.file.currentFileNumber
    IN  IF ~openOk
        THEN [sink |-> [sink EXCEPT !.file.is_open = FALSE, !.file.fail = TRUE],
              result |-> FALSE]
        ELSE LET opened ==
                     [sink EXCEPT !.file.is_open = TRUE, !.file.fail = FALSE,
                                  !.file.currentFileSize = 0, !.file.partial = 0,
                                  !.stats.filesCreated = @ + 1,
                                  !.disk = [m \in DOMAIN @ \cup {n} |->
                                               IF m = n THEN <<>> ELSE @[m]]]
             IN  IF ~headerOk
                 THEN \* writeFileHeader failed: close and return false
                      [sink |-> [opened EXCEPT !.file.is_open = FALSE,
                                               !.file.fail = TRUE],
                       result |-> FALSE]
                 ELSE [sink |-> [opened EXCEPT !.file.currentFileSize = @ + 56,
                                               !.disk[n] = Append(@, FileHeader)],
                       result |-> TRUE]

\* A slip needsRollover could make: the limit itself is not a rollover.
needsRolloverStrict(size) == size > maxFileSize

\* Line 300: the file is rolled over at maxFileSize, inclusive.
needsRollover(size) == size >= maxFileSize

writeToFile(sink, frameData, io) ==
    LET first == IF ~sink.file.is_open
                 THEN openNextFile(sink, io # "openFail", io # "headerFail")
                 ELSE [sink |-> sink, result |-> TRUE]
        s1 == first.sink
        n == s1.file.currentFileNumber
    IN  IF ~first.result
        THEN [sink |-> [s1 EXCEPT !.stats.buildErrors = @ + 1], result |-> FALSE]
        ELSE IF s1.file.fail \/ io \in WriteFailures
        THEN \* the stream is not good (it takes nothing), or the write failed
             [sink |-> [s1 EXCEPT !.file.fail = TRUE,
                                  !.file.partial =
                                      IF s1.file.fail THEN @
                                      ELSE accepted(frameData, io),
                                  !.stats.buildErrors = @ + 1],
              result |-> FALSE]
        ELSE LET s2 == [s1 EXCEPT !.disk[n] = Append(@, frameData),
                                  !.file.currentFileSize = @ + Len(frameData),
                                  !.stats.bytesWritten = @ + Len(frameData)]
             IN  IF needsRollover(s2.file.currentFileSize)
                 THEN openNextFile([s2 EXCEPT !.file.currentFileNumber = @ + 1],
                                   io # "rollOpenFail", io # "rollHeaderFail")
                 ELSE [sink |-> s2, result |-> TRUE]

\* ------------------------------------------------------------------------
\* BuilderThread::threadFunc
\* ------------------------------------------------------------------------

\* Maximum ET event size in bytes (the constructor's default).
etEventSize == 1024 * 1024

\* Slips shouldBuild could make: only the timeout, or only the completeness,
\* makes a frame ready.
shouldBuildOnTimeout(frame) ==
    frame.slices # <<>> /\ isTimedOut(frame, frameTimeoutMs)

shouldBuildWhenComplete(frame) ==
    frame.slices # <<>> /\ Len(frame.slices) >= expectedStreamCount

\* Another slip shouldBuild could make: any frame that has a slice is ready.
shouldBuildNonEmpty(frame) == frame.slices # <<>>

\* A frame is built when it is complete or has timed out.
shouldBuild(frame) ==
    /\ frame.slices # <<>>
    /\ \/ Len(frame.slices) >= expectedStreamCount
       \/ isTimedOut(frame, frameTimeoutMs)

\* A slip UnlockForBuild could make: the lock is kept while the frame is
\* built and published.
KeepLockForBuild(h) == frameMutex' = frameMutex

\* Line 679: lock.unlock() before the frame is built and published.
UnlockForBuild(h) == frameMutex' = [frameMutex EXCEPT ![h] = FALSE]

\* Leaving the scan: the locals go out of scope.
ClearLocals(h) ==
    /\ frameCopy' = [frameCopy EXCEPT ![h] = AggregatedFrame]
    /\ builtFrame' = [builtFrame EXCEPT ![h] = <<>>]
    /\ success' = [success EXCEPT ![h] = FALSE]
    /\ events' = [events EXCEPT ![h] = "none"]

\* A slip WaitFor could make: running is not looked at after the wait.
WaitForIgnoresStop(h) ==
    /\ pc[h] = "wait"
    /\ ~frameMutex[h]
    /\ pc' = [pc EXCEPT ![h] = "scan"]
    /\ frameMutex' = [frameMutex EXCEPT ![h] = TRUE]
    /\ it' = [it EXCEPT ![h] = DOMAIN frameBuffer[h]]
    /\ itValid' = [itValid EXCEPT ![h] = TRUE]
    /\ UNCHANGED <<cfgVars, rxVars, fbVars, slicesAggregated, stopVars, frameBuffer,
                   running, localVars, stats, thread, sinkVars>>

\* Lines 648-660: the lock is taken and wait_for returns (its predicate
\* holds, or the timeout of frameTimeoutMs / 2 expired).
WaitFor(h) ==
    /\ pc[h] = "wait"
    /\ ~frameMutex[h]
    /\ IF ~running[h]
       THEN /\ pc' = [pc EXCEPT ![h] = "done"]
            /\ UNCHANGED <<frameMutex, it, itValid>>
       ELSE /\ pc' = [pc EXCEPT ![h] = "scan"]
            /\ frameMutex' = [frameMutex EXCEPT ![h] = TRUE]
            /\ it' = [it EXCEPT ![h] = DOMAIN frameBuffer[h]]
            /\ itValid' = [itValid EXCEPT ![h] = TRUE]
    /\ UNCHANGED <<cfgVars, rxVars, fbVars, slicesAggregated, stopVars, frameBuffer,
                   running, localVars, stats, thread, sinkVars>>

\* A slip erase could make: the entry stays in the buffer.
eraseNone(buffer, k) == buffer

\* Line 678: frameBuffer.erase(it), the buffer without the entry of key k.
erase(buffer, k) == [j \in DOMAIN buffer \ {k} |-> buffer[j]]

\* Lines 662-679 and 719-722: one iteration of the scan, under the lock.
Scan(h) ==
    /\ pc[h] = "scan"
    /\ IF it[h] = {} \/ ~running[h]
       THEN \* the scan ends: the lock is released at the end of the block
            /\ pc' = [pc EXCEPT ![h] = "wait"]
            /\ frameMutex' = [frameMutex EXCEPT ![h] = FALSE]
            /\ it' = [it EXCEPT ![h] = {}]
            /\ itValid' = [itValid EXCEPT ![h] = TRUE]
            /\ UNCHANGED <<frameBuffer, localVars>>
       ELSE \E k \in it[h] :
            /\ it' = [it EXCEPT ![h] = @ \ {k}]
            /\ UNCHANGED itValid
            /\ IF shouldBuild(frameBuffer[h][k])
               THEN /\ frameCopy' = [frameCopy EXCEPT ![h] = frameBuffer[h][k]]
                    /\ frameBuffer' = [frameBuffer EXCEPT ![h] = erase(@, k)]
                    /\ UnlockForBuild(h)
                    /\ pc' = [pc EXCEPT ![h] = "check1"]
                    /\ UNCHANGED <<builtFrame, success, events>>
               ELSE UNCHANGED <<frameBuffer, frameMutex, pc, localVars>>
    /\ UNCHANGED <<cfgVars, rxVars, fbVars, slicesAggregated, stopVars, running,
                   stats, thread, sinkVars>>

\* Lines 682-688: the first check of running, then buildEVIO6Frame.
Build(h) ==
    /\ pc[h] = "check1"
    /\ IF ~running[h]
       THEN /\ pc' = [pc EXCEPT ![h] = "break"]
            /\ UNCHANGED <<builtFrame, success, stats>>
       ELSE \E r \in {buildEVIO6Frame(frameCopy[h])} :
                /\ builtFrame' = [builtFrame EXCEPT ![h] = r.output]
                /\ stats' = [stats EXCEPT ![h].timestampErrors =
                                @ + (IF r.tsError THEN 1 ELSE 0)]
                /\ success' = [success EXCEPT ![h] = r.ok]
                /\ pc' = [pc EXCEPT ![h] = IF r.ok THEN "check2" ELSE "relock"]
    /\ UNCHANGED <<cfgVars, rxVars, fbVars, slicesAggregated, stopVars, bufVars,
                   running, frameCopy, events, thread, sinkVars>>

\* A slip CheckRunning could make: the thread goes on whatever running is.
CheckRunningIgnored(h) ==
    /\ pc[h] \in {"check2", "check3"}
    /\ pc' = [pc EXCEPT ![h] = IF pc[h] = "check2" THEN "etGate" ELSE "fileGate"]
    /\ UNCHANGED <<cfgVars, rxVars, fbVars, slicesAggregated, stopVars, bufVars,
                   running, localVars, stats, thread, sinkVars>>

\* Lines 692, 702: a check of running between the blocking operations.
CheckRunning(h) ==
    /\ pc[h] \in {"check2", "check3"}
    /\ pc' = [pc EXCEPT ![h] =
                 IF ~running[h] THEN "break"
                 ELSE IF pc[h] = "check2" THEN "etGate" ELSE "fileGate"]
    /\ UNCHANGED <<cfgVars, rxVars, fbVars, slicesAggregated, stopVars, bufVars,
                   running, localVars, stats, thread, sinkVars>>

\* Line 698: if (useET && running), sendToET is entered.
EtGate(h) ==
    /\ pc[h] = "etGate"
    /\ pc' = [pc EXCEPT ![h] =
                 IF enableET /\ running[h] THEN "et_new" ELSE "fileGate"]
    /\ UNCHANGED <<cfgVars, rxVars, fbVars, slicesAggregated, stopVars, bufVars,
                   running, localVars, stats, thread, sinkVars>>

\* sendToET, lines 603-624: et_events_new returns, with eventLength the
\* length the ET system reports for the event it gave.  With status ET_OK
\* the event is filled unless the frame is larger than the event, which is
\* then dumped.  The call fails on a system that is closed.
EtNew(h, status, eventLength) ==
    /\ pc[h] = "et_new"
    /\ status = "ET_OK" => etSystem = "open" /\ h \in etAttached
    /\ IF status = "ET_OK" /\ Len(builtFrame[h]) <= eventLength
       THEN /\ pc' = [pc EXCEPT ![h] = "et_put"]
            /\ events' = [events EXCEPT ![h] = "held"]
            /\ UNCHANGED <<success, stats>>
       ELSE /\ events' = [events EXCEPT ![h] =
                             IF status = "ET_OK" THEN "dumped" ELSE "none"]
            /\ stats' = [stats EXCEPT ![h].buildErrors = @ + 1]
            /\ success' = [success EXCEPT ![h] = FALSE]
            /\ pc' = [pc EXCEPT ![h] = "check3"]
    /\ UNCHANGED <<cfgVars, rxVars, fbVars, slicesAggregated, stopVars, bufVars,
                   running, frameCopy, builtFrame, thread, sinkVars>>

\* sendToET, lines 626-640: et_events_put returns.  An event whose put
\* failed is neither put nor dumped.
EtPut(h, status) ==
    /\ pc[h] = "et_put"
    /\ status = "ET_OK" => etSystem = "open" /\ h \in etAttached
    /\ IF status = "ET_OK"
       THEN /\ etEvents' = [etEvents EXCEPT ![h] = Append(@, builtFrame[h])]
            /\ events' = [events EXCEPT ![h] = "put"]
            /\ stats' = [stats EXCEPT ![h].framesBuilt = @ + 1,
                                      ![h].bytesWritten = @ + Len(builtFrame[h])]
            /\ UNCHANGED success
       ELSE /\ stats' = [stats EXCEPT ![h].buildErrors = @ + 1]
            /\ success' = [success EXCEPT ![h] = FALSE]
            /\ UNCHANGED <<etEvents, events>>
    /\ pc' = [pc EXCEPT ![h] = "check3"]
    /\ UNCHANGED <<cfgVars, rxVars, fbVars, slicesAggregated, stopVars, bufVars,
                   running, frameCopy, builtFrame, thread, outputFile, disk>>

\* Line 709: if (useFileOutput && running), writeToFile is entered.
FileGate(h) ==
    /\ pc[h] = "fileGate"
    /\ pc' = [pc EXCEPT ![h] =
                 IF enableFileOutput /\ running[h] THEN "file" ELSE "count"]
    /\ UNCHANGED <<cfgVars, rxVars, fbVars, slicesAggregated, stopVars, bufVars,
                   running, localVars, stats, thread, sinkVars>>

\* A slip the file sink could make: one fileMutex for all the builder
\* threads, so that a thread waits while another is inside writeToFile.
WriteToFileOneMutex(h, io) ==
    /\ pc[h] = "file"
    /\ \A g \in Threads \ {h} : pc[g] # "file"
    /\ LET r == writeToFile([file |-> outputFile[h], disk |-> disk[h],
                             stats |-> stats[h]], builtFrame[h], io)
       IN  /\ outputFile' = [outputFile EXCEPT ![h] = r.sink.file]
           /\ disk' = [disk EXCEPT ![h] = r.sink.disk]
           /\ stats' = [stats EXCEPT ![h] = r.sink.stats]
           /\ success' = [success EXCEPT ![h] = r.result /\ @]
    /\ pc' = [pc EXCEPT ![h] = "count"]
    /\ UNCHANGED <<cfgVars, rxVars, fbVars, slicesAggregated, stopVars, bufVars,
                   running, frameCopy, builtFrame, events, thread, etEvents>>

\* Line 710: writeToFile returns.
WriteToFile(h, io) ==
    /\ pc[h] = "file"
    /\ LET r == writeToFile([file |-> outputFile[h], disk |-> disk[h],
                             stats |-> stats[h]], builtFrame[h], io)
       IN  /\ outputFile' = [outputFile EXCEPT ![h] = r.sink.file]
           /\ disk' = [disk EXCEPT ![h] = r.sink.disk]
           /\ stats' = [stats EXCEPT ![h] = r.sink.stats]
           /\ success' = [success EXCEPT ![h] = r.result /\ @]
    /\ pc' = [pc EXCEPT ![h] = "count"]
    /\ UNCHANGED <<cfgVars, rxVars, fbVars, slicesAggregated, stopVars, bufVars,
                   running, frameCopy, builtFrame, events, thread, etEvents>>

\* Lines 713-715: if (success) framesBuilt++.
Count(h) ==
    /\ pc[h] = "count"
    /\ stats' = [stats EXCEPT ![h].framesBuilt = @ + (IF success[h] THEN 1 ELSE 0)]
    /\ pc' = [pc EXCEPT ![h] = "relock"]
    /\ UNCHANGED <<cfgVars, rxVars, fbVars, slicesAggregated, stopVars, bufVars,
                   running, localVars, thread, sinkVars>>

\* A slip Relock could make: the thread leaves its loop when the frame it
\* had in hand was not emitted.
RelockQuitsOnFailure(h) ==
    /\ pc[h] = "relock"
    /\ ~frameMutex[h]
    /\ frameMutex' = [frameMutex EXCEPT ![h] = success[h]]
    /\ pc' = [pc EXCEPT ![h] = IF success[h] THEN "scan" ELSE "done"]
    /\ ClearLocals(h)
    /\ UNCHANGED <<cfgVars, rxVars, fbVars, slicesAggregated, stopVars, frameBuffer, it,
                   itValid, running, stats, thread, sinkVars>>

\* Line 718: lock.lock(), and the scan resumes.
Relock(h) ==
    /\ pc[h] = "relock"
    /\ ~frameMutex[h]
    /\ frameMutex' = [frameMutex EXCEPT ![h] = TRUE]
    /\ pc' = [pc EXCEPT ![h] = "scan"]
    /\ ClearLocals(h)
    /\ UNCHANGED <<cfgVars, rxVars, fbVars, slicesAggregated, stopVars, frameBuffer, it,
                   itValid,
                   running, stats, thread, sinkVars>>

\* Lines 683-684, 693-694, 703-704: lock.lock(); break; the lock is released
\* at the end of the block and the in-flight frame is discarded.
Break(h) ==
    /\ pc[h] = "break"
    /\ ~frameMutex[h]
    /\ pc' = [pc EXCEPT ![h] = "wait"]
    /\ it' = [it EXCEPT ![h] = {}]
    /\ itValid' = [itValid EXCEPT ![h] = TRUE]
    /\ ClearLocals(h)
    /\ UNCHANGED <<cfgVars, rxVars, fbVars, slicesAggregated, stopVars, frameBuffer,
                   frameMutex, running, stats, thread, sinkVars>>

\* ------------------------------------------------------------------------
\* Time
\* ------------------------------------------------------------------------

\* A millisecond passes: every buffered frame ages (ages past the timeout
\* are not told apart).
Tick ==
    /\ \E h \in Threads : \E k \in DOMAIN frameBuffer[h] :
          frameBuffer[h][k].elapsed <= frameTimeoutMs
    /\ frameBuffer' = [h \in Threads |-> [k \in DOMAIN frameBuffer[h] |->
           [frameBuffer[h][k] EXCEPT !.elapsed =
               IF @ <= frameTimeoutMs THEN @ + 1 ELSE @]]]
    /\ UNCHANGED <<cfgVars, rxVars, fbVars, slicesAggregated, stopVars, frameMutex, it,
                   itValid,
                   running, pc, localVars, stats, thread, sinkVars>>

\* ------------------------------------------------------------------------
\* FrameBuilder::stop, BuilderThread::signalStop and waitForStop
\* ------------------------------------------------------------------------

\* signalStop notifies 5 times, sleeping 50 ms after each.
signalNotifies == 5

signalSleepMs == 50

\* waitForStop polls every 100 ms and gives up after more than 1000 ms.
waitSleepMs == 100

max_wait_ms == 1000

\* The least time waitForStop's loop has waited when it detaches, whatever
\* the thread does: it sleeps waitSleepMs at a time (a sleep lasts at least
\* its duration) until the elapsed time exceeds max_wait_ms.
waitLoop ==
    IF waitSleepMs > max_wait_ms THEN waitSleepMs ELSE max_wait_ms + 1

\* Lines 1051-1053.
StopBegin ==
    /\ started = "yes"
    /\ stopPc = "idle"
    /\ fbRunning' = FALSE
    /\ stopPc' = "signal"
    /\ stopIdx' = 0
    /\ UNCHANGED <<cfgVars, rxVars, started, etSystem, etAttachments, etAttached, fbStats,
                   slicesAggregated, stopClock, bufVars, running, pc, localVars,
                   stats, thread, sinkVars>>

\* Lines 1056-1058: signalStop of the next builder.
SignalStop ==
    /\ stopPc = "signal"
    /\ running' = [running EXCEPT ![stopIdx] = FALSE]
    /\ stopClock' = stopClock + signalNotifies * signalSleepMs
    /\ IF stopIdx + 1 < builderThreadCount
       THEN stopIdx' = stopIdx + 1 /\ stopPc' = stopPc
       ELSE stopIdx' = 0 /\ stopPc' = "wait"
    /\ UNCHANGED <<cfgVars, rxVars, fbVars, slicesAggregated, bufVars, pc, localVars,
                   stats, thread, sinkVars>>

\* A slip waitForStop could make: the thread is joined, which returns only
\* once the thread has left threadFunc.
WaitForStopJoined ==
    /\ stopPc = "wait"
    /\ thread[stopIdx] = "joinable" => pc[stopIdx] = "done"
    /\ IF thread[stopIdx] # "joinable"
       THEN UNCHANGED <<thread, stopClock>>
       ELSE /\ thread' = [thread EXCEPT ![stopIdx] = "joined"]
            /\ stopClock' = stopClock + waitLoop
    /\ IF stopIdx + 1 < builderThreadCount
       THEN stopIdx' = stopIdx + 1 /\ stopPc' = stopPc
       ELSE stopIdx' = 0 /\ stopPc' = "collect"
    /\ UNCHANGED <<cfgVars, rxVars, fbVars, slicesAggregated, bufVars, running, pc,
                   localVars, stats, sinkVars>>

\* Lines 1061-1063: waitForStop of the next builder.
WaitForStop ==
    /\ stopPc = "wait"
    /\ IF thread[stopIdx] # "joinable"
       THEN UNCHANGED <<thread, stopClock>>
       ELSE /\ thread' = [thread EXCEPT ![stopIdx] = "detached"]
            /\ stopClock' = stopClock + waitLoop
    /\ IF stopIdx + 1 < builderThreadCount
       THEN stopIdx' = stopIdx + 1 /\ stopPc' = stopPc
       ELSE stopIdx' = 0 /\ stopPc' = "collect"
    /\ UNCHANGED <<cfgVars, rxVars, fbVars, slicesAggregated, bufVars, running, pc,
                   localVars, stats, sinkVars>>

RECURSIVE SumOver(_, _)
SumOver(f(_), S) ==
    IF S = {} THEN 0
    ELSE LET x == CHOOSE y \in S : TRUE IN f(x) + SumOver(f, S \ {x})

\* Lines 1068-1084: the counters of the builders are summed.
CollectStats ==
    /\ stopPc = "collect"
    /\ LET built(h) == stats[h].framesBuilt
           errors(h) == stats[h].buildErrors
           tsErrors(h) == stats[h].timestampErrors
           files(h) == stats[h].filesCreated
           bytes(h) == stats[h].bytesWritten
       IN  fbStats' = [fbStats EXCEPT !.framesBuilt = SumOver(built, Threads),
                                      !.buildErrors = SumOver(errors, Threads),
                                      !.timestampErrors = SumOver(tsErrors, Threads),
                                      !.filesCreated = SumOver(files, Threads),
                                      !.bytesWritten = SumOver(bytes, Threads)]
    /\ stopPc' = "etclose"
    /\ UNCHANGED <<cfgVars, rxVars, started, etSystem, etAttachments, etAttached, fbRunning,
                   slicesAggregated, stopIdx, stopClock, bufVars, running, pc,
                   localVars, stats, thread, sinkVars>>

\* Lines 1096-1107: the attachments are detached and the ET system closed.
CloseET ==
    /\ stopPc = "etclose"
    /\ IF enableET /\ etSystem = "open"
       THEN /\ etAttached' = etAttached \ etAttachments
            /\ etAttachments' = {}
            /\ etSystem' = "null"
       ELSE UNCHANGED <<etSystem, etAttachments, etAttached>>
    /\ stopPc' = "done"
    /\ UNCHANGED <<cfgVars, rxVars, started, fbRunning, fbStats, slicesAggregated, stopIdx,
                   stopClock, bufVars, running, pc, localVars, stats, thread,
                   sinkVars>>

\* ------------------------------------------------------------------------
\* Specification
\* ------------------------------------------------------------------------

\* A step of builder thread h while it runs.
BuilderStep(h) ==
    \/ WaitFor(h)
    \/ Scan(h)
    \/ Build(h)
    \/ CheckRunning(h)
    \/ EtGate(h)
    \/ \E status \in {"ET_OK", "ET_ERROR"},
          eventLength \in {Len(builtFrame[h]) - 1, etEventSize} :
             EtNew(h, status, eventLength)
    \/ \E status \in {"ET_OK", "ET_ERROR"} : EtPut(h, status)
    \/ FileGate(h)
    \/ \E io \in IoOutcomes : WriteToFile(h, io)
    \/ Count(h)
    \/ Relock(h)

\* start(), the builder threads and the passing of time.
RunSteps ==
    \/ \E etOutcome \in {"ok", "openFail"} \cup ({"attachFail"} \X Threads),
          dirOk \in BOOLEAN : Start(etOutcome, dirOk)
    \/ \E h \in Threads : BuilderStep(h)
    \/ Tick

\* stop(), and the builder threads leaving their loop.
StopStep ==
    \/ SignalStop
    \/ WaitForStop
    \/ CollectStats
    \/ CloseET

StopSteps ==
    \/ StopBegin
    \/ StopStep
    \/ \E h \in Threads : Break(h)

Submit(inputs) == \E in \in inputs : addTimeSlice(in[1], in[2], in[3], in[4])

Next ==
    \/ Submit(SliceInputs)
    \/ RunSteps
    \/ StopSteps

Spec == Init /\ [][Next]_vars

\* The same system with stop() never called (running stays true) and every
\* builder thread scheduled again and again; time may stand still.
NextRun ==
    \/ Submit(SliceInputs)
    \/ RunSteps

SpecRun ==
    /\ Init
    /\ [][NextRun]_vars
    /\ \A h \in Threads : WF_vars(BuilderStep(h))

\* The same system with stop() never called and no thread sure to be
\* scheduled: any builder thread may stay where it is for ever.
SpecShards == Init /\ [][NextRun]_vars

\* The system fed with timestamps further apart than timestampSlop and with
\* timestamps whose sum exceeds 64 bits.
TsInputs ==
    { <<U64(100), 7, 1, GoodPayload>>,
      <<U64(200), 7, 2, GoodPayload>>,
      <<BigTs, 7, 1, GoodPayload>>,
      <<BigTs, 7, 2, SwappedPayload>> }

NextTs ==
    \/ Submit(TsInputs)
    \/ RunSteps
    \/ StopSteps

SpecTs == Init /\ [][NextTs]_vars

\* The steps of builder thread h other than the return of a sink call.
NonSinkStep(h) ==
    \/ WaitFor(h)
    \/ Scan(h)
    \/ Build(h)
    \/ CheckRunning(h)
    \/ EtGate(h)
    \/ FileGate(h)
    \/ Count(h)
    \/ Relock(h)
    \/ Break(h)

\* One stream for each shard: two slices of a stream make a complete frame.
HaltInputs ==
    { <<U64(2), 7, 1, GoodPayload>>,
      <<U64(1), 8, 2, SwappedPayload>> }

NextHalt ==
    \/ Submit(HaltInputs)
    \/ RunSteps
    \/ StopSteps

\* stop() called at any time; its own thread always gets to run, the builder
\* threads may be blocked for ever.
SpecStop == Init /\ [][NextHalt]_vars /\ WF_vars(StopStep)

\* stop() called at any time; its own thread and the builder threads are
\* scheduled again and again, but a sink call need not return.
SpecHalt ==
    /\ Init
    /\ [][NextHalt]_vars
    /\ WF_vars(StopStep)
    /\ \A h \in Threads : WF_vars(NonSinkStep(h))

\* stop() never called, the builder threads scheduled again and again and
\* time passing.
SpecTimed == SpecRun /\ WF_vars(Tick)

\* ------------------------------------------------------------------------
\* The encoder applied to frames of many shapes
\* ------------------------------------------------------------------------

\* Frames of up to this many slices of every payload shape are encoded.
MaxEncSlices == 3

\* The largest frames encoded have this many slices (more than the 7 bits
\* of the status byte hold).
MaxStreams == 129

\* A ROC bank of n bytes.
Bank(n) == [i \in 1..n |-> 160 + i]

\* Payloads whose ROC banks have 0 to 5 bytes, and the invalid ones.
EncPayloads ==
    {Prefix(Magic) \o Bank(n) : n \in 0..3}
    \cup {GoodPayload, SwappedPayload, BadMagicPayload, ShortPayload}

\* The payload sequences of the frames: every short one, and long ones of
\* valid slices.
EncFrames ==
    UNION {[1..n -> EncPayloads] : n \in 1..MaxEncSlices}
    \cup {[i \in 1..n |-> IF i % 2 = 0 THEN GoodPayload ELSE SwappedPayload] :
             n \in (MaxStreams - 2)..MaxStreams}

\* The frame the buffer holds after addTimeSlice was called for timestamp ts
\* with each of the payloads in turn (stream i sending payload i, every
\* stream sending frame number 7), once it is ready to be built.
FrameOf(ts, payloads) ==
    [timestamp |-> ts, frameNumber |-> 7,
     slices |-> [i \in 1..Len(payloads) |-> TimeSlice(ts, 7, i, payloads[i])],
     elapsed |-> IF Len(payloads) >= expectedStreamCount THEN 0 ELSE frameTimeoutMs + 1]

\* start() has succeeded, a number of slices of one timestamp have been
\* submitted and the builder thread has just removed their frame.
InitEnc ==
    /\ fbConfig = [state |-> "constructed", builderThreadCount |-> builderThreadCount]
    /\ enableET \in BOOLEAN
    /\ enableFileOutput \in BOOLEAN
    /\ enableET \/ enableFileOutput
    /\ started = "yes"
    /\ etSystem = IF enableET THEN "open" ELSE "null"
    /\ etAttachments = IF enableET THEN Threads ELSE {}
    /\ etAttached = IF enableET THEN Threads ELSE {}
    /\ fbRunning = TRUE
    /\ fbStats = ZeroStats
    /\ stopPc = "idle"
    /\ stopIdx = 0
    /\ stopClock = 0
    /\ frameBuffer = [h \in Threads |-> [k \in {} |-> AggregatedFrame]]
    /\ frameMutex = [h \in Threads |-> FALSE]
    /\ it = [h \in Threads |-> {}]
    /\ itValid = [h \in Threads |-> TRUE]
    /\ running = [h \in Threads |-> TRUE]
    /\ thread = [h \in Threads |-> "joinable"]
    /\ builtFrame = [h \in Threads |-> <<>>]
    /\ success = [h \in Threads |-> FALSE]
    /\ events = [h \in Threads |-> "none"]
    /\ outputFile = [h \in Threads |->
                        [is_open |-> FALSE, fail |-> FALSE, partial |-> 0,
                         currentFileSize |-> 0, currentFileNumber |-> 0]]
    /\ disk = [h \in Threads |-> [n \in {} |-> <<>>]]
    /\ etEvents = [h \in Threads |-> <<>>]
    /\ RxIdle
    /\ \E ts \in {U64(0), U64(1)}, payloads \in EncFrames :
          /\ slicesAggregated = Len(payloads)
          /\ frameCopy = [h \in Threads |->
                IF h = threadIndex(ts) THEN FrameOf(ts, payloads) ELSE AggregatedFrame]
          /\ pc = [h \in Threads |-> IF h = threadIndex(ts) THEN "check1" ELSE "wait"]
          /\ stats = [h \in Threads |->
                IF h = threadIndex(ts)
                THEN [ZeroStats EXCEPT !.slicesProcessed = Len(payloads)]
                ELSE ZeroStats]

NextEnc == \E h \in Threads : BuilderStep(h)

SpecEnc == InitEnc /\ [][NextEnc]_vars

\* ------------------------------------------------------------------------
\* The construction of a FrameBuilder with any number of builder threads
\* ------------------------------------------------------------------------

\* The largest numBuilderThreads tried.
MaxThreadArg == 33

\* The range of --fb-threads the receiver's main accepts.
fbThreadsMin == 1

fbThreadsMax == 32

\* A slip FrameBuilderThrows could make: it never throws.
FrameBuilderNeverThrows(etFile, fileDir, numBuilderThreads) == FALSE

\* Lines 843-847: what makes the constructor throw.
FrameBuilderThrows(etFile, fileDir, numBuilderThreads) ==
    etFile = "" /\ fileDir = ""

\* FrameBuilder::FrameBuilder called by any user of the class.
Construct(etFile, fileDir, numBuilderThreads) ==
    /\ fbConfig.state = "none"
    /\ IF FrameBuilderThrows(etFile, fileDir, numBuilderThreads)
       THEN /\ fbConfig' = [fbConfig EXCEPT !.state = "threw"]
            /\ UNCHANGED <<enableET, enableFileOutput>>
       ELSE /\ fbConfig' = [state |-> "constructed",
                             builderThreadCount |-> numBuilderThreads]
            /\ enableET' = (etFile # "")
            /\ enableFileOutput' = (fileDir # "")
    /\ UNCHANGED <<rxVars, fbVars, slicesAggregated, stopVars, bufVars, running,
                   pc, localVars, stats, thread, sinkVars>>

\* The receiver's main: it validates --fb-threads, then constructs.
MainConstruct(etFile, fileDir, fbThreads) ==
    /\ fbConfig.state = "none"
    /\ IF fbThreads < fbThreadsMin \/ fbThreads > fbThreadsMax
       THEN /\ fbConfig' = [fbConfig EXCEPT !.state = "rejected"]
            /\ UNCHANGED <<enableET, enableFileOutput, rxVars, fbVars,
                           slicesAggregated, stopVars, bufVars, running, pc,
                           localVars, stats, thread, sinkVars>>
       ELSE Construct(etFile, fileDir, fbThreads)

\* Whether a FrameBuilder object exists.
Constructed == fbConfig.state = "constructed"

\* FrameBuilder::start on an object of any thread count: it returns false, or
\* it creates builderThreadCount builder threads (none if that is not
\* positive) and returns true.  The threads themselves are followed in Spec.
StartAny(ok) ==
    /\ Constructed
    /\ started = "no"
    /\ started' = IF ok THEN "yes" ELSE "failed"
    /\ fbRunning' = ok
    /\ UNCHANGED <<cfgVars, rxVars, etSystem, etAttachments, etAttached, fbStats,
                   slicesAggregated, stopVars, bufVars, running, pc, localVars,
                   stats, thread, sinkVars>>

\* FrameBuilder::addTimeSlice on an object of any thread count, as far as
\* the FrameBuilder is concerned: timestamp % builderThreadCount is computed
\* (the behaviour is undefined if builderThreadCount is 0: the process is
\* killed, or goes on with some index into the empty builderThreads), the
\* slice is handed to that builder and slicesAggregated is incremented.
AddTimeSliceAny(timestamp) ==
    /\ Constructed
    /\ started = "yes"
    /\ slicesAggregated < MaxSlices
    /\ IF fbConfig.builderThreadCount = 0
       THEN \/ fbConfig' = [fbConfig EXCEPT !.state = "crashed"] /\ UNCHANGED slicesAggregated
            \/ fbConfig' = fbConfig /\ slicesAggregated' = slicesAggregated + 1
       ELSE /\ U64Mod(timestamp, fbConfig.builderThreadCount)
                \in 0..(fbConfig.builderThreadCount - 1)
            /\ fbConfig' = fbConfig
            /\ slicesAggregated' = slicesAggregated + 1
    /\ UNCHANGED <<enableET, enableFileOutput, rxVars, fbVars, stopVars,
                   bufVars, running, pc, localVars, stats, thread, sinkVars>>

\* No FrameBuilder has been constructed yet.
InitCtor ==
    /\ fbConfig = [state |-> "none", builderThreadCount |-> 0]
    /\ enableET = FALSE
    /\ enableFileOutput = FALSE
    /\ started = "no"
    /\ etSystem = "null"
    /\ etAttachments = {}
    /\ etAttached = {}
    /\ fbRunning = FALSE
    /\ slicesAggregated = 0
    /\ fbStats = ZeroStats
    /\ stopPc = "idle"
    /\ stopIdx = 0
    /\ stopClock = 0
    /\ frameBuffer = [h \in Threads |-> [k \in {} |-> AggregatedFrame]]
    /\ frameMutex = [h \in Threads |-> FALSE]
    /\ it = [h \in Threads |-> {}]
    /\ itValid = [h \in Threads |-> TRUE]
    /\ running = [h \in Threads |-> FALSE]
    /\ pc = [h \in Threads |-> "none"]
    /\ frameCopy = [h \in Threads |-> AggregatedFrame]
    /\ builtFrame = [h \in Threads |-> <<>>]
    /\ success = [h \in Threads |-> FALSE]
    /\ events = [h \in Threads |-> "none"]
    /\ stats = [h \in Threads |-> ZeroStats]
    /\ thread = [h \in Threads |-> "none"]
    /\ outputFile = [h \in Threads |->
                        [is_open |-> FALSE, fail |-> FALSE, partial |-> 0,
                         currentFileSize |-> 0, currentFileNumber |-> 0]]
    /\ disk = [h \in Threads |-> [n \in {} |-> <<>>]]
    /\ etEvents = [h \in Threads |-> <<>>]
    /\ RxIdle

NextCtor ==
    \/ \E etFile \in {"", "et"}, fileDir \in {"", "dir"}, n \in 0..MaxThreadArg :
          Construct(etFile, fileDir, n)
    \/ \E etFile \in {"", "et"}, fileDir \in {"", "dir"}, n \in 0..MaxThreadArg :
          MainConstruct(etFile, fileDir, n)
    \/ \E ok \in BOOLEAN : StartAny(ok)
    \/ \E ts \in {U64(0), U64(5), BigTs} : AddTimeSliceAny(ts)

SpecCtor == InitCtor /\ [][NextCtor]_vars

\* ------------------------------------------------------------------------
\* The receiver: parseEVIOPayload and the reception loop
\* ------------------------------------------------------------------------

\* swap32: the four bytes of a word reversed.
swap32(w) ==
    <<(w[2] % 256) * 256 + (w[2] \div 256), (w[1] % 256) * 256 + (w[1] \div 256)>>

\* A slip parseEVIOPayload could make: the middle byte of word 10 is not
\* checked.
parseEVIOPayloadAnyRocId(payload, payloadSize) ==
    IF payloadSize < 64 THEN NoMeta
    ELSE LET magic == WordAt(payload, 28)
             needsSwap == magic = MagicSwapped
             readWord(index) == IF needsSwap THEN swap32(WordAt(payload, 4 * index))
                                ELSE WordAt(payload, 4 * index)
         IN  IF magic \notin {Magic, MagicSwapped} THEN NoMeta
             ELSE [timestamp |-> <<readWord(14)[2], readWord(14)[1],
                                   readWord(15)[2], readWord(15)[1]>>,
                   frameNumber |-> readWord(13)[1] * LimbBase + readWord(13)[2],
                   dataId |-> readWord(9)[2] % 256,
                   valid |-> TRUE, wrongEndian |-> needsSwap]

\* parseEVIOPayload: the metadata of a reassembled payload, valid only if
\* the payload has 64 bytes, word 7 is the magic in either byte order and the
\* middle byte of word 9 is 0x10.
parseEVIOPayload(payload, payloadSize) ==
    IF payloadSize < 64 THEN NoMeta
    ELSE LET magic == WordAt(payload, 28)
             needsSwap == magic = MagicSwapped
             readWord(index) == IF needsSwap THEN swap32(WordAt(payload, 4 * index))
                                ELSE WordAt(payload, 4 * index)
             word10 == readWord(9)
             next8 == word10[2] \div 256
             ss == word10[2] % 256
             ts_low == readWord(14)
             ts_high == readWord(15)
         IN  IF magic \notin {Magic, MagicSwapped} THEN NoMeta
             ELSE IF next8 # 16 THEN [NoMeta EXCEPT !.wrongEndian = needsSwap]
             ELSE [timestamp |-> <<ts_low[2], ts_low[1], ts_high[2], ts_high[1]>>,
                   frameNumber |-> readWord(13)[1] * LimbBase + readWord(13)[2],
                   dataId |-> ss,
                   valid |-> TRUE, wrongEndian |-> needsSwap]

\* At most this many buffers are received.
MaxEvents == 3

\* The bytes of a sequence of words as the little-endian host stores them.
WordsLE(words) ==
    The({ [i \in 1..(4 * Len(w)) |-> WordBE(w[((i - 1) \div 4) + 1])[4 - ((i - 1) % 4)]] :
          w \in {words} })

\* The 16 words of a payload's header with the given words 7 and 9, frame
\* number and timestamp (below 2^16), followed by one word of data.
EvioWords(word7, word9, frame, ts) ==
    [i \in 1..17 |->
        CASE i = 8 -> word7
          [] i = 10 -> word9
          [] i = 14 -> U32(frame)
          [] i = 15 -> U32(ts)
          [] i = 17 -> <<43690, 48059>>
          [] OTHER -> U32(0)]

\* Buffers the reassembler hands over: two valid ones of timestamp 2 (one
\* from a source of the other byte order) and one of timestamp 1; one that is
\* too short, one with a wrong word 7 and one with a wrong word 9.
RxGood == WordsLE(EvioWords(Magic, <<16, 4097>>, 7, 2))

RxSwapped == WordsBE(EvioWords(Magic, <<16, 4098>>, 8, 2))

RxOther == WordsLE(EvioWords(Magic, <<2, 4099>>, 9, 1))

RxShort == SubSeq(RxGood, 1, 60)

RxBadMagic == WordsLE(EvioWords(<<49370, 257>>, <<16, 4097>>, 7, 2))

RxBadRoc == WordsLE(EvioWords(Magic, <<16, 4353>>, 7, 2))

RxBuffers == {RxGood, RxSwapped, RxOther, RxShort, RxBadMagic, RxBadRoc}

\* What the memory of a buffer may hold once the buffer has been deleted:
\* its bytes still, or whatever the allocator or the next owner wrote there.
Scribbled(bytes) == [i \in 1..Len(bytes) |-> 255]

Freed(bytes) == {bytes, Scribbled(bytes)}

\* Lines 568-583: recvEvent returns a buffer.  (A timeout or an error of
\* recvEvent leaves the loop where it is.)
RecvEvent(buf) ==
    /\ started = "yes"
    /\ rxPc = "recv"
    /\ rxStats.dataFramesReceived < MaxEvents
    /\ eventBuf' = [live |-> TRUE, bytes |-> buf]
    /\ rxStats' = [rxStats EXCEPT !.dataFramesReceived = @ + 1]
    /\ rxPc' = "parse"
    /\ UNCHANGED <<meta, cfgVars, fbVars, slicesAggregated, stopVars, bufVars,
                   running, pc, localVars, stats, thread, sinkVars>>

\* Lines 590-613: the buffer is parsed; an invalid one is counted and
\* deleted and the loop goes on to the next.
ParseEvent ==
    /\ rxPc = "parse"
    /\ \E m \in {parseEVIOPayload(eventBuf.bytes, Len(eventBuf.bytes))} :
          /\ meta' = m
          /\ IF ~m.valid
             THEN /\ rxStats' = [rxStats EXCEPT !.payloadValidationErrors = @ + 1]
                  /\ \E b \in Freed(eventBuf.bytes) :
                        eventBuf' = [live |-> FALSE, bytes |-> b]
                  /\ rxPc' = "recv"
             ELSE /\ rxStats' = [rxStats EXCEPT !.wrongEndiannessCount =
                                                    @ + (IF m.wrongEndian THEN 1 ELSE 0)]
                  /\ eventBuf' = eventBuf
                  /\ rxPc' = "submit"
    /\ UNCHANGED <<cfgVars, fbVars, slicesAggregated, stopVars, bufVars, running,
                   pc, localVars, stats, thread, sinkVars>>

\* Lines 625-652: the slice is handed to the frame builder with the metadata
\* read from the payload.
SubmitEvent ==
    /\ rxPc = "submit"
    /\ addTimeSliceCall(meta.timestamp, meta.frameNumber, meta.dataId, eventBuf.bytes)
    /\ rxPc' = "release"
    /\ UNCHANGED <<eventBuf, meta, rxStats>>

\* Lines 687-688: delete[] eventBuf; eventBuf = nullptr.
ReleaseEvent ==
    /\ rxPc = "release"
    /\ \E b \in Freed(eventBuf.bytes) : eventBuf' = [live |-> FALSE, bytes |-> b]
    /\ rxPc' = "recv"
    /\ UNCHANGED <<meta, rxStats, cfgVars, fbVars, slicesAggregated, stopVars,
                   bufVars, running, pc, localVars, stats, thread, sinkVars>>

\* The reception loop feeding the frame builder, stop() not being called.
NextRx ==
    \/ \E buf \in RxBuffers : RecvEvent(buf)
    \/ ParseEvent
    \/ SubmitEvent
    \/ ReleaseEvent
    \/ RunSteps

SpecRx == Init /\ [][NextRx]_vars

\* ------------------------------------------------------------------------
\* Reading the sinks
\* ------------------------------------------------------------------------

\* The status byte (error flag and slice count) of a record.
RecordStatus(record) == record[64]

\* The timestamp a record embeds, as a uint64_t.
RecordTimestamp(record) ==
    << record[83] * 256 + record[84], record[81] * 256 + record[82],
       record[87] * 256 + record[88], record[85] * 256 + record[86] >>

\* The slice count of the aggregation info segment.
RecordSliceCount(record) == record[91] * 256 + record[92]

RecordDataIds(record) ==
    [i \in 1..RecordSliceCount(record) |->
        record[92 + 4 * (i - 1) + 1] * 256 + record[92 + 4 * (i - 1) + 2]]

RecordPayload(record) ==
    SubSeq(record, 92 + 4 * RecordSliceCount(record) + 1, Len(record))

\* The record is one for timestamp ts made of exactly the slices ss.
Carries(record, ts, ss) ==
    /\ Len(record) >= 92
    /\ RecordTimestamp(record) = ts
    /\ RecordStatus(record) % 128 = Len(ss)
    /\ RecordSliceCount(record) = Len(ss)
    /\ RecordDataIds(record) = [i \in 1..Len(ss) |-> ss[i].dataId]
    /\ RecordPayload(record) =
           Flatten([i \in 1..Len(ss) |->
               PaddedBank(SubSeq(ss[i].payload, 33, Len(ss[i].payload)))])

\* The records builder h has put into the ET system and written to its files.
EtRecords(h) == {etEvents[h][i] : i \in DOMAIN etEvents[h]}

FileRecords(h) ==
    UNION {{disk[h][n][i] : i \in DOMAIN disk[h][n]} \ {FileHeader} :
           n \in DOMAIN disk[h]}

\* Every enabled sink of builder h holds a record of timestamp ts made of ss.
Emitted(h, ts, ss) ==
    /\ enableET => \E r \in EtRecords(h) : Carries(r, ts, ss)
    /\ enableFileOutput => \E r \in FileRecords(h) : Carries(r, ts, ss)

AllValid(ss) == \A i \in DOMAIN ss : SliceValid(ss[i])

\* The slice sequences a frame of the inputs can hold.
SlicesOf(inputs, ts) ==
    {TimeSlice(in[1], in[2], in[3], in[4]) : in \in {x \in inputs : x[1] = ts}}

FrameSlices(inputs) ==
    UNION {UNION {[1..n -> SlicesOf(inputs, in[1])] : n \in 1..MaxSlices} :
           in \in inputs}

\* Builder h buffers a frame whose slices are exactly ss.
Buffered(h, ss) ==
    /\ ss[1].timestamp \in DOMAIN frameBuffer[h]
    /\ frameBuffer[h][ss[1].timestamp].slices = ss

\* The frame made of ss has been joined by a further slice.
Grew(h, ss) ==
    /\ ss[1].timestamp \in DOMAIN frameBuffer[h]
    /\ Len(frameBuffer[h][ss[1].timestamp].slices) > Len(ss)

\* A sink call made for the frame of ss has failed.
SinkFailed(h, ss) ==
    /\ pc[h] \in {"check3", "fileGate", "file", "count"}
    /\ frameCopy[h].slices = ss
    /\ ~success[h]

\* ------------------------------------------------------------------------
\* C1
\* ------------------------------------------------------------------------

\* C1: a step that puts a slice into the buffer of shard h puts it under its
\* own timestamp ts, h is ts mod N, and the buffer and the counters of every
\* other shard are left as they were.
C1_RoutedToShard ==
    [][\A h \in Threads : \A k \in DOMAIN frameBuffer'[h] :
          (\/ k \notin DOMAIN frameBuffer[h]
           \/ Len(frameBuffer'[h][k].slices) > Len(frameBuffer[h][k].slices))
          => /\ U64Mod(k, builderThreadCount) = h
             /\ frameBuffer'[h][k].slices[Len(frameBuffer'[h][k].slices)].timestamp = k
             /\ \A g \in Threads \ {h} :
                   frameBuffer'[g] = frameBuffer[g] /\ stats'[g] = stats[g]]_vars

\* Both shards hold a frame, one of them under a timestamp above 2^63.
C1_Witness ==
    /\ BigTs \in DOMAIN frameBuffer[1]
    /\ U64(100) \in DOMAIN frameBuffer[0]

\* ------------------------------------------------------------------------
\* C2
\* ------------------------------------------------------------------------

\* The shard of the frame made of ss.
ShardOf(ss) == U64Mod(ss[1].timestamp, builderThreadCount)

\* Frames of the inputs: complete or partial, every slice valid or not.
CompleteFrames == {ss \in FrameSlices(SliceInputs) : Len(ss) >= expectedStreamCount}

PartialFrames == {ss \in FrameSlices(SliceInputs) : Len(ss) < expectedStreamCount}

\* How many records of the set carry ss.
RecordCount(records, ss) ==
    Cardinality({i \in DOMAIN records : Carries(records[i], ss[1].timestamp, ss)})

InSinkCall == {"et_new", "et_put", "file"}

\* C4: once stop() has been entered it returns, whatever the builder threads
\* do (none of them need ever take a step); when stop() has left its wait
\* loop every builder thread has been detached.
C4_ShutdownReturns ==
    /\ (stopPc = "signal") ~> (stopPc = "done")
    /\ [](stopPc \in {"collect", "etclose", "done"}
             => \A h \in Threads : thread[h] = "detached")

\* stop() has returned while a builder thread is still inside a sink call it
\* entered before running was cleared.
C4_Witness ==
    /\ stopPc = "done"
    /\ \E h \in Threads : pc[h] \in InSinkCall /\ thread[h] = "detached"

\* ------------------------------------------------------------------------
\* C5
\* ------------------------------------------------------------------------

\* C5: when stop() returns it has taken at most one second for each builder
\* thread, the signalling and the waiting counted together.
C5_ShutdownWithinBound ==
    stopPc = "done" => stopClock <= builderThreadCount * 1000

\* ------------------------------------------------------------------------
\* C6
\* ------------------------------------------------------------------------

\* The positions at which threadFunc reads running before it goes on with the
\* frame it has removed.
RunningChecks == {"check1", "check2", "etGate", "check3", "fileGate"}

\* C6, as the claim states it: a frame that a builder thread has removed
\* from its buffer, that builds without error and none of whose sink calls
\* fails, is in every enabled sink when the thread has finished with it, even
\* if running was cleared meanwhile.
C6_InFlightPublished ==
    \A h \in Threads :
        (/\ pc[h] = "break"
         /\ AllValid(frameCopy[h].slices)
         /\ ~checkTimestampConsistency(frameCopy[h])
         /\ stats[h].buildErrors = 0)
        => Emitted(h, frameCopy[h].timestamp, frameCopy[h].slices)

\* C6, amended: a frame that a builder thread has removed from its buffer is
\* handed to a sink only while the thread still reads running as true: once
\* it reads running as false at one of its checks it enters no sink call for
\* the frame any more, and on leaving the loop it discards the frame, which
\* goes neither to a sink nor back into the buffer.
C6_DiscardedOnStop ==
    [][\A h \in Threads :
          /\ (pc[h] \in RunningChecks /\ ~running[h] /\ pc'[h] # pc[h])
             => /\ pc'[h] \in {"break", "fileGate", "count"}
                /\ etEvents'[h] = etEvents[h]
                /\ disk'[h] = disk[h]
          /\ (pc[h] = "break" /\ pc'[h] # pc[h])
             => /\ pc'[h] = "wait"
                /\ frameCopy'[h] = AggregatedFrame
                /\ builtFrame'[h] = <<>>
                /\ etEvents'[h] = etEvents[h]
                /\ disk'[h] = disk[h]
                /\ frameBuffer'[h] = frameBuffer[h]
          /\ (pc'[h] \in InSinkCall /\ pc[h] \notin InSinkCall) => running[h]]_vars

\* A builder thread has left its loop having discarded the valid frame it had
\* removed: no sink of it holds any record.
C6_Witness ==
    \E h \in Threads :
        /\ pc[h] = "break"
        /\ frameCopy[h].slices # <<>>
        /\ AllValid(frameCopy[h].slices)
        /\ EtRecords(h) = {}
        /\ FileRecords(h) = {}

\* ------------------------------------------------------------------------
\* C7
\* ------------------------------------------------------------------------

\* The positions of threadFunc from the unlock (line 679) to the lock (line
\* 718): the frame is built and published there.
BuildingOrPublishing ==
    {"check1", "check2", "etGate", "et_new", "et_put", "check3", "fileGate",
     "file", "count", "relock", "break"}

\* C7: a builder thread does not hold the mutex of its shard while it builds
\* or publishes a frame, so that a submit hashed to the shard can take the lock
\* and insert its slice even while the thread is inside a sink call.
C7_UnlockedWhileBuilding ==
    \A h \in Threads :
        pc[h] \in BuildingOrPublishing
        => /\ ~frameMutex[h]
           /\ (started = "yes" /\ slicesAggregated < MaxSlices)
              => \A in \in {x \in SliceInputs : U64Mod(x[1], builderThreadCount) = h} :
                    ENABLED addTimeSlice(in[1], in[2], in[3], in[4])

\* While a builder thread is inside a sink call for the frame it removed, a
\* slice of the same timestamp has been inserted into its buffer.
C7_Witness ==
    \E h \in Threads :
        /\ pc[h] \in InSinkCall
        /\ frameCopy[h].slices # <<>>
        /\ frameCopy[h].slices[1].timestamp \in DOMAIN frameBuffer[h]

\* ------------------------------------------------------------------------
\* C8
\* ------------------------------------------------------------------------

\* C8: of the slices submitted at timestamps 100 and 200 (both hashed to
\* builder 0, timestampSlop being 10) every record that reaches a sink is
\* the one aggregated record: error flag set, two slices, timestamp 150.
C8_SlopAggregated ==
    \A r \in EtRecords(0) \cup FileRecords(0) :
        /\ RecordStatus(r) \div 128 = 1
        /\ RecordStatus(r) % 128 = 2
        /\ RecordTimestamp(r) = U64(150)

\* ------------------------------------------------------------------------
\* C9
\* ------------------------------------------------------------------------

\* C9: when a builder thread has finished with a frame it removed, running
\* still being true and no sink call having failed, every enabled sink holds
\* a record of the frame if at least one slice of the frame passes the slice
\* validation, the record carrying the error flag if a slice was dropped.
C9_BuiltWithErrorsEmitted ==
    \A h \in Threads :
        (/\ pc[h] = "relock"
         /\ running[h]
         /\ stats[h].buildErrors = 0
         /\ \E i \in DOMAIN frameCopy[h].slices : SliceValid(frameCopy[h].slices[i]))
        => /\ enableET =>
                \E r \in EtRecords(h) :
                    /\ RecordTimestamp(r) = calculateAverageTimestamp(frameCopy[h])
                    /\ AllValid(frameCopy[h].slices) \/ RecordStatus(r) \div 128 = 1
           /\ enableFileOutput =>
                \E r \in FileRecords(h) :
                    /\ RecordTimestamp(r) = calculateAverageTimestamp(frameCopy[h])
                    /\ AllValid(frameCopy[h].slices) \/ RecordStatus(r) \div 128 = 1

\* ------------------------------------------------------------------------
\* C10
\* ------------------------------------------------------------------------

\* The sum of the timestamps of the slices, exact: five limbs.
RECURSIVE WideSum(_)
WideSum(slices) ==
    IF slices = <<>> THEN <<0, 0, 0, 0, 0>>
    ELSE The({ LET s1 == a[1] + b[1]
                   s2 == a[2] + b[2] + (s1 \div LimbBase)
                   s3 == a[3] + b[3] + (s2 \div LimbBase)
                   s4 == a[4] + b[4] + (s3 \div LimbBase)
                   s5 == a[5] + (s4 \div LimbBase)
               IN  <<s1 % LimbBase, s2 % LimbBase, s3 % LimbBase, s4 % LimbBase, s5>> :
               a \in {WideSum(Tail(slices))}, b \in {Head(slices).timestamp} })

\* floor((ts_1 + ... + ts_k) / k): long division of the exact sum.
ExactMean(slices) ==
    LET a == The({WideSum(slices)})
        k == Len(slices)
        t4 == (a[5] % k) * LimbBase + a[4]
        t3 == (t4 % k) * LimbBase + a[3]
        t2 == (t3 % k) * LimbBase + a[2]
        t1 == (t2 % k) * LimbBase + a[1]
    IN  <<t1 \div k, t2 \div k, t3 \div k, t4 \div k>>

\* C10: the timestamp a record embeds is the exact integer mean of the
\* timestamps of the slices it was built from.
C10_ExactMeanEmbedded ==
    \A h \in Threads :
        pc[h] = "check2"
        => RecordTimestamp(builtFrame[h]) = ExactMean(frameCopy[h].slices)

\* ------------------------------------------------------------------------
\* Reading a record
\* ------------------------------------------------------------------------

\* read_be_u32(B, word): 32-bit word i (from 0) of a record, as a uint32_t.
RecordWord(record, i) ==
    <<record[4 * i + 1] * 256 + record[4 * i + 2],
      record[4 * i + 3] * 256 + record[4 * i + 4]>>

\* The number a uint32_t below 2^31 stands for.
U32Val(w) == w[1] * LimbBase + w[2]

\* The number of AIS entries of a record: the words of the stream info bank
\* after its header, the 4 words of the TSS and the AIS header.
RecordAisEntries(record) == U32Val(RecordWord(record, 16)) - 6

\* The slices of a frame whose payload the encoder retains.
Retained(frame) == SelectSeq(frame.slices, SliceValid)

\* The positions of threadFunc from the first sink call for the frame it
\* has removed up to the point where it drops the frame.
Publishing == {"et_put", "check3", "fileGate", "file", "count", "relock"}

\* The records builder h has emitted, to any sink.
Records(h) == EtRecords(h) \cup FileRecords(h)

\* The length of a ROC bank of n bytes with its padding.
Padded4(n) == 4 * ((n + 3) \div 4)

\* ------------------------------------------------------------------------
\* C11
\* ------------------------------------------------------------------------

\* C11, as the claim states it: in every emitted record the low 7 bits of
\* the status byte, the count field of the AIS header and the number of AIS
\* entries are all equal to K, the number of slices whose payload the
\* record retains.
C11_StatusAndCountsAreK ==
    \A h \in Threads :
        pc[h] \in Publishing
        => \A r \in Records(h) :
              LET K == Len(Retained(frameCopy[h]))
              IN  /\ RecordStatus(r) % 128 = K
                  /\ RecordSliceCount(r) = K
                  /\ RecordAisEntries(r) = K

\* C11, amended: in every emitted record (of a frame of fewer than 2^16
\* slices) the count field of the AIS header and the number of AIS entries
\* are equal to K, the number of slices whose payload the record retains,
\* the AIS entries carry the dataIds of those slices in order, and the low 7
\* bits of the status byte, in both bank headers, are K mod 128.
C11_StatusIsKMod128 ==
    \A h \in Threads :
        pc[h] \in Publishing
        => \A r \in Records(h) :
              LET K == Len(Retained(frameCopy[h]))
              IN  /\ RecordStatus(r) % 128 = K % 128
                  /\ r[72] = RecordStatus(r)
                  /\ RecordSliceCount(r) = K
                  /\ RecordAisEntries(r) = K
                  /\ RecordDataIds(r) = [i \in 1..K |-> Retained(frameCopy[h])[i].dataId]

\* A record of 128 slices or more has been emitted.
C11_Witness ==
    \E h \in Threads :
        /\ pc[h] = "count"
        /\ \E r \in Records(h) : RecordSliceCount(r) >= 128

\* ------------------------------------------------------------------------
\* C12
\* ------------------------------------------------------------------------

\* The length the buffer of a frame has: 23 metadata words, one AIS entry
\* for each slice, and the retained ROC banks, each padded.
ExpectedLength(frame) ==
    4 * (23 + Len(frame.slices))
    + SumRange([i \in 1..Len(Retained(frame)) |->
                   Padded4(Len(Retained(frame)[i].payload) - 32)],
               1, Len(Retained(frame)))

\* C12: in every buffer B the encoder produces, whether or not slices were
\* dropped, word 0 (recordLength) is 14 + aggregatedBankLength + 1, word 8 is
\* recordLength - 14, and recordLength * 4 is |B|, the metadata words plus
\* the ROC banks each padded to a 4-byte boundary.
C12_LengthsConsistent ==
    \A h \in Threads :
        builtFrame[h] # <<>>
        => LET B == builtFrame[h]
               recordLength == U32Val(RecordWord(B, 0))
           IN  /\ recordLength = 14 + U32Val(RecordWord(B, 14)) + 1
               /\ U32Val(RecordWord(B, 8)) = recordLength - 14
               /\ recordLength * 4 = Len(B)
               /\ Len(B) = ExpectedLength(frameCopy[h])

\* The encoder has produced a buffer for a frame one slice of which it
\* dropped and one bank of which needed padding.
C12_Witness ==
    \E h \in Threads :
        /\ pc[h] = "relock"
        /\ builtFrame[h] # <<>>
        /\ Len(Retained(frameCopy[h])) < Len(frameCopy[h].slices)
        /\ \E i \in DOMAIN frameCopy[h].slices :
              /\ SliceValid(frameCopy[h].slices[i])
              /\ Len(frameCopy[h].slices[i].payload) % 4 # 0

\* ------------------------------------------------------------------------
\* C13
\* ------------------------------------------------------------------------

\* Where the ROC bank of slice i of ss starts in a record of ss (0-based).
BankOffset(ss, i) ==
    4 * (23 + Len(ss))
    + SumRange([j \in 1..Len(ss) |-> Padded4(Len(ss[j].payload) - 32)], 1, i - 1)

\* The record holds the ROC bank of every slice of ss, verbatim, in the
\* order of ss, each followed by the 0 to 3 zero bytes that bring it to a
\* multiple of 4 bytes, and nothing else after the metadata words.
Verbatim(record, ss) ==
    /\ \A i \in DOMAIN ss :
          LET off == The({BankOffset(ss, i)})
              len == Len(ss[i].payload) - 32
              pad == Padded4(len) - len
          IN  /\ off + len + pad <= Len(record)
              /\ SubSeq(record, off + 1, off + len) = SubSeq(ss[i].payload, 33, 32 + len)
              /\ pad \in 0..3
              /\ (len + pad) % 4 = 0
              /\ \A j \in 1..pad : record[off + len + j] = 0
    /\ Len(record) = BankOffset(ss, Len(ss) + 1)

\* C13: every emitted record holds, after its metadata words, the bytes
\* P[32..] of each of its slices contiguously and unmodified, each bank
\* followed by 0 to 3 zero bytes so that its written length is a multiple of
\* 4, the banks in the order of insertion of the slices.
C13_PayloadVerbatim ==
    \A h \in Threads :
        pc[h] \in Publishing
        => \A r \in Records(h) : Verbatim(r, Retained(frameCopy[h]))

\* A record of three banks of 1, 2 and 3 bytes has been emitted.
C13_Witness ==
    \E h \in Threads :
        /\ pc[h] = "count"
        /\ Records(h) # {}
        /\ Len(frameCopy[h].slices) = 3
        /\ \A i \in 1..3 : Len(frameCopy[h].slices[i].payload) = 32 + i

\* ------------------------------------------------------------------------
\* C14
\* ------------------------------------------------------------------------

\* C14, as the claim states it: in every emitted record header words 1, 3,
\* 6, 9, 10, 11, 12 and 13 are zero and word 7 is the magic 0xC0DA0100.
C14_HeaderWordsZero ==
    \A h \in Threads : \A r \in Records(h) :
        /\ \A i \in {1, 3, 6, 9, 10, 11, 12, 13} : RecordWord(r, i) = U32(0)
        /\ RecordWord(r, 7) = Magic

\* C14, amended: in every emitted record header words 1, 6, 9, 10, 11, 12
\* and 13 are zero, word 3 (the event index count) is 1, and word 7 is the
\* magic 0xC0DA0100.
C14_HeaderWordsFixed ==
    \A h \in Threads : \A r \in Records(h) :
        /\ \A i \in {1, 6, 9, 10, 11, 12, 13} : RecordWord(r, i) = U32(0)
        /\ RecordWord(r, 3) = U32(1)
        /\ RecordWord(r, 7) = Magic

\* A record has reached the ET system and a file.
C14_Witness ==
    \E h \in Threads : EtRecords(h) # {} /\ FileRecords(h) # {}

\* ------------------------------------------------------------------------
\* C15
\* ------------------------------------------------------------------------

\* C15: a FrameBuilder that has been constructed (and so can be started and
\* be submitted to) has an output enabled and a builderThreadCount within
\* [1, 32]: addTimeSlice never computes timestamp % builderThreadCount with a
\* count of 0 or above 32.
C15_InvalidConfigRejected ==
    fbConfig.state \in {"constructed", "crashed"}
    => /\ enableET \/ enableFileOutput
       /\ fbConfig.builderThreadCount \in fbThreadsMin..fbThreadsMax

\* ------------------------------------------------------------------------
\* C16
\* ------------------------------------------------------------------------

\* C16: whenever start() has returned failure, every ET attachment made
\* during the call has been detached, the ET system is closed (or was never
\* opened) and no builder thread is running.
C16_StartFailsAtomically ==
    started = "failed"
    => /\ etAttached = {}
       /\ etSystem # "open"
       /\ \A h \in Threads : thread[h] = "none" /\ ~running[h]

\* ------------------------------------------------------------------------
\* C17
\* ------------------------------------------------------------------------

\* The number of records builder h has written to its files.
FileRecordCount(h) ==
    Cardinality(UNION {{<<n, i>> : i \in {j \in DOMAIN disk[h][n] :
                                            disk[h][n][j] # FileHeader}} :
                       n \in DOMAIN disk[h]})

\* The positions of threadFunc between two frames.
BetweenFrames == {"wait", "scan", "done"}

\* C17: between two frames the framesBuilt counter of a shard is the number
\* of frames it has published: with one sink enabled the number of records
\* in that sink, with both sinks enabled (a frame counting once however many
\* sinks it reached) at least the larger of the two numbers of records and
\* at most their sum.
C17_FramesBuiltCountsRecords ==
    \A h \in Threads :
        pc[h] \in BetweenFrames
        => LET e == Len(etEvents[h])
               f == FileRecordCount(h)
           IN  /\ (enableET /\ ~enableFileOutput) => stats[h].framesBuilt = e
               /\ (~enableET /\ enableFileOutput) => stats[h].framesBuilt = f
               /\ (enableET /\ enableFileOutput)
                  => /\ stats[h].framesBuilt >= (IF e > f THEN e ELSE f)
                     /\ stats[h].framesBuilt <= e + f

\* ------------------------------------------------------------------------
\* C18
\* ------------------------------------------------------------------------

\* FrameBuilder::getStatistics: the counters of the builder threads summed,
\* and slicesAggregated added to the slices.
getStatistics ==
    LET threadBuilt(h) == stats[h].framesBuilt
        threadSlices(h) == stats[h].slicesProcessed
        threadErrors(h) == stats[h].buildErrors
        threadBytes(h) == stats[h].bytesWritten
    IN  [built |-> SumOver(threadBuilt, Threads),
         slices |-> SumOver(threadSlices, Threads) + slicesAggregated,
         errors |-> SumOver(threadErrors, Threads),
         bytes |-> SumOver(threadBytes, Threads)]

\* The slices the buffers hold and the builder threads have in hand.
SlicesInHand ==
    LET buffered(h) ==
            LET held(k) == Len(frameBuffer[h][k].slices)
            IN  SumOver(held, DOMAIN frameBuffer[h])
        copied(h) == Len(frameCopy[h].slices)
    IN  SumOver(buffered, Threads) + SumOver(copied, Threads)

\* C18: the 'slices' value getStatistics returns is the number of slices
\* submitted so far, which is never less than the number of slices the
\* buffers and the builder threads hold.
C18_SlicesIsSubmitted ==
    /\ getStatistics.slices = slicesAggregated
    /\ SlicesInHand <= getStatistics.slices

\* ------------------------------------------------------------------------
\* C19
\* ------------------------------------------------------------------------

\* The bytes of the first n writes of a file.
FileBytes(file, n) == SumRange([i \in 1..Len(file) |-> Len(file[i])], 1, n)

\* C19: a write that brings the size of the file to maxFileSize or more is
\* followed, in the same call, by the increment of the file number by
\* exactly one and the opening of the next file.  So the files below the
\* current number are full, the current file is not; no record was appended
\* to a file that already held maxFileSize bytes; the size counter of an open
\* file is the number of bytes it holds; and the numbers of the files of a
\* shard are 0, 1, 2, ... without gaps, the number never moving but up by one.
C19_Rollover ==
    /\ [](\A h \in Threads :
            LET cur == outputFile[h].currentFileNumber
            IN  /\ \E k \in 0..(MaxSlices + 1) : DOMAIN disk[h] = 0..(k - 1)
                /\ DOMAIN disk[h] \in {0..(cur - 1), 0..cur}
                /\ \A n \in DOMAIN disk[h] :
                      /\ n < cur => FileBytes(disk[h][n], Len(disk[h][n])) >= maxFileSize
                      /\ n = cur => FileBytes(disk[h][n], Len(disk[h][n])) < maxFileSize
                      /\ \A i \in 2..Len(disk[h][n]) :
                            FileBytes(disk[h][n], i - 1) < maxFileSize
                /\ (outputFile[h].is_open /\ ~outputFile[h].fail)
                   => /\ cur \in DOMAIN disk[h]
                      /\ outputFile[h].currentFileSize
                            = FileBytes(disk[h][cur], Len(disk[h][cur])))
    /\ [][\A h \in Threads :
             outputFile'[h].currentFileNumber
                \in {outputFile[h].currentFileNumber,
                     outputFile[h].currentFileNumber + 1}]_vars

\* A shard has filled file 0 with two records and opened file 1.
C19_Witness ==
    \E h \in Threads :
        /\ DOMAIN disk[h] = {0, 1}
        /\ Len(disk[h][0]) = 3
        /\ disk[h][1] = <<FileHeader>>
        /\ outputFile[h].is_open
        /\ outputFile[h].currentFileNumber = 1

\* ------------------------------------------------------------------------
\* C20
\* ------------------------------------------------------------------------

\* C20: every output file that holds anything starts with the 56-byte
\* preamble, written once, and holds records after it; a file whose preamble
\* write did not succeed holds nothing and is no longer open, so no record
\* is written to it.
C20_PreambleOnceFirst ==
    /\ Len(FileHeader) = 56
    /\ \A h \in Threads : \A n \in DOMAIN disk[h] :
          IF disk[h][n] = <<>>
          THEN n = outputFile[h].currentFileNumber /\ ~outputFile[h].is_open
          ELSE /\ disk[h][n][1] = FileHeader
               /\ \A i \in 2..Len(disk[h][n]) :
                     /\ disk[h][n][i] # FileHeader
                     /\ RecordWord(disk[h][n][i], 2) = U32(14)

\* The preamble write of file 0 failed once; the file was opened again and
\* now holds the preamble and a record.
C20_Witness ==
    \E h \in Threads :
        /\ stats[h].filesCreated = 2
        /\ DOMAIN disk[h] = {0}
        /\ Len(disk[h][0]) = 2

\* ------------------------------------------------------------------------
\* C21
\* ------------------------------------------------------------------------

\* The payloads of the slices the frame builder holds, in its buffers and in
\* the hands of its builder threads.
HeldPayloads ==
    UNION {UNION {{frameBuffer[h][k].slices[i].payload :
                      i \in DOMAIN frameBuffer[h][k].slices} :
                  k \in DOMAIN frameBuffer[h]}
           \cup {frameCopy[h].slices[i].payload : i \in DOMAIN frameCopy[h].slices} :
           h \in Threads}

\* The buffers that pass the receiver's validation.
RxValid == {b \in RxBuffers : parseEVIOPayload(b, Len(b)).valid}

\* The ROC banks of a record are those of buffers the reassembler handed
\* over, with the bytes the buffers held then.
FromBuffers(record) ==
    \E n \in 1..MaxSlices : \E bs \in [1..n -> RxValid] :
        RecordPayload(record) =
            Flatten([i \in 1..n |-> PaddedBank(SubSeq(bs[i], 33, Len(bs[i])))])

\* C21: the slice a submit call adds to a frame holds the bytes the
\* producer's buffer holds at the time of the call; a later change to the
\* buffer, or its release, changes no buffered frame, no frame in the hands
\* of a builder thread and no sink; so every payload the frame builder holds
\* and every ROC bank it emits has the bytes the buffer held at the submit.
C21_SubmitCopies ==
    /\ [](\A p \in HeldPayloads : p \in RxValid)
    /\ [](\A h \in Threads : \A r \in Records(h) : FromBuffers(r))
    /\ [][(rxPc = "submit" /\ rxPc' = "release")
          => LET h == threadIndex(meta.timestamp)
                 before == IF meta.timestamp \in DOMAIN frameBuffer[h]
                           THEN frameBuffer[h][meta.timestamp].slices ELSE <<>>
                 after == frameBuffer'[h][meta.timestamp].slices
             IN  /\ Len(after) = Len(before) + 1
                 /\ after[Len(after)].payload = eventBuf.bytes]_vars
    /\ [][eventBuf' # eventBuf
          => /\ frameBuffer' = frameBuffer
             /\ frameCopy' = frameCopy
             /\ builtFrame' = builtFrame
             /\ etEvents' = etEvents
             /\ disk' = disk]_vars

\* A record of two slices is in a sink while the memory of the last buffer,
\* since deleted, holds other bytes.
C21_Witness ==
    /\ ~eventBuf.live
    /\ eventBuf.bytes = Scribbled(RxGood)
    /\ \E h \in Threads : \E r \in Records(h) : RecordSliceCount(r) = 2

\* ------------------------------------------------------------------------
\* C22
\* ------------------------------------------------------------------------

\* The slices the records of a sequence of writes carry, the file header
\* carrying none.
SlicesIn(writes) ==
    SumRange([i \in 1..Len(writes) |->
                 IF writes[i] = FileHeader THEN 0 ELSE RecordSliceCount(writes[i])],
             1, Len(writes))

\* The slices the buffer of builder h holds.
SlicesBuffered(h) ==
    LET held(k) == Len(frameBuffer[h][k].slices)
    IN  SumOver(held, DOMAIN frameBuffer[h])

\* The positions of threadFunc at which the frame it has removed has not yet
\* been through the ET sink, and through the file sink.
BeforeEtPut == {"check1", "check2", "etGate", "et_new", "et_put"}

BeforeFileWrite == BeforeEtPut \cup {"check3", "fileGate", "file"}

\* C22: under every interleaving of the producers, the builder threads and
\* stop(), no slice is emitted twice to a sink: for each shard and each sink,
\* the slices in the records of the sink, the slices still buffered and the
\* slices of a removed frame not yet through the sink are together no more
\* than the slices submitted to the shard.  And a frame removed from the
\* buffer is published at most once to each sink: a sink grows only by the
\* one record of the frame the builder thread has in hand, at its single
\* put (or write) for that frame, and the frame in hand does not change
\* between its removal and that call.
C22_AtMostOnce ==
    /\ [](\A h \in Threads :
            /\ SlicesIn(etEvents[h]) + SlicesBuffered(h)
                  + (IF pc[h] \in BeforeEtPut THEN Len(frameCopy[h].slices) ELSE 0)
               <= stats[h].slicesProcessed
            /\ SumRange([n \in DOMAIN disk[h] |-> SlicesIn(disk[h][n])],
                        0, Cardinality(DOMAIN disk[h]) - 1)
                  + SlicesBuffered(h)
                  + (IF pc[h] \in BeforeFileWrite THEN Len(frameCopy[h].slices) ELSE 0)
               <= stats[h].slicesProcessed)
    /\ [][\A h \in Threads :
             /\ etEvents'[h] # etEvents[h]
                => /\ pc[h] = "et_put" /\ pc'[h] = "check3"
                   /\ etEvents'[h] = Append(etEvents[h], builtFrame[h])
                   /\ RecordSliceCount(builtFrame[h]) = Len(frameCopy[h].slices)
             /\ disk'[h] # disk[h]
                => /\ pc[h] = "file" /\ pc'[h] = "count"
                   /\ SumRange([n \in DOMAIN disk'[h] |-> SlicesIn(disk'[h][n])],
                               0, Cardinality(DOMAIN disk'[h]) - 1)
                      <= SumRange([n \in DOMAIN disk[h] |-> SlicesIn(disk[h][n])],
                                  0, Cardinality(DOMAIN disk[h]) - 1)
                         + Len(frameCopy[h].slices)
             /\ (pc[h] \in BeforeFileWrite /\ pc'[h] \notin {"scan", "wait"})
                => frameCopy'[h] = frameCopy[h]]_vars

\* Two frames of the same timestamp, of one slice each, have been emitted one
\* after the other to both sinks of a shard.
C22_Witness ==
    \E h \in Threads :
        /\ Len(etEvents[h]) = 2
        /\ RecordTimestamp(etEvents[h][1]) = RecordTimestamp(etEvents[h][2])
        /\ FileRecordCount(h) = 2
        /\ stats[h].slicesProcessed = 2

\* ------------------------------------------------------------------------
\* C23
\* ------------------------------------------------------------------------

\* The validation of a received buffer, on its bytes: at least 64 of them,
\* word 7 the magic 0xc0da0100 in the byte order of the host or reversed, and
\* the middle byte (bits 15-8) of word 9, read in the order word 7 gives,
\* equal to 0x10.
PassesValidation(b) ==
    /\ Len(b) >= 64
    /\ \/ SubSeq(b, 29, 32) = <<0, 1, 218, 192>> /\ b[38] = 16
       \/ SubSeq(b, 29, 32) = <<192, 218, 1, 0>> /\ b[39] = 16

\* C23: a received buffer that fails the validation is never passed to
\* addTimeSlice: the step that has parsed it increments
\* payloadValidationErrors, deletes it and takes the loop back to the next
\* reception, no frame buffer and no slice counter changing; a buffer that
\* passes goes on to the submit with no error counted; and a slice enters a
\* frame buffer only at the submit of a live buffer that passed, so every
\* payload the frame builder holds passed the validation.
C23_NoPartialSubmission ==
    /\ [][(rxPc = "parse" /\ rxPc' # "parse")
          => IF PassesValidation(eventBuf.bytes)
             THEN /\ rxPc' = "submit"
                  /\ eventBuf' = eventBuf
                  /\ rxStats'.payloadValidationErrors = rxStats.payloadValidationErrors
             ELSE /\ rxPc' = "recv"
                  /\ ~eventBuf'.live
                  /\ rxStats'.payloadValidationErrors
                        = rxStats.payloadValidationErrors + 1
                  /\ frameBuffer' = frameBuffer
                  /\ slicesAggregated' = slicesAggregated
                  /\ stats' = stats]_vars
    /\ [][(\/ slicesAggregated' # slicesAggregated
           \/ \E h \in Threads : SlicesBuffered(h)' > SlicesBuffered(h))
          => /\ rxPc = "submit"
             /\ eventBuf.live
             /\ PassesValidation(eventBuf.bytes)]_vars
    /\ [](\A p \in HeldPayloads : PassesValidation(p))
    /\ [](rxPc = "recv"
             => rxStats.payloadValidationErrors + slicesAggregated
                   = rxStats.dataFramesReceived)

\* The loop has dropped two invalid buffers, then submitted a valid one (of
\* the reversed byte order).
C23_Witness ==
    /\ rxStats.payloadValidationErrors = 2
    /\ slicesAggregated = 1
    /\ rxPc = "release"
    /\ eventBuf.bytes = RxSwapped

\* ------------------------------------------------------------------------
\* C24
\* ------------------------------------------------------------------------

\* The ready predicate: the frame has a slice, and it has the expected number
\* of slices or is older than the timeout.
Ready(frame) ==
    /\ Len(frame.slices) > 0
    /\ \/ Len(frame.slices) >= expectedStreamCount
       \/ frame.elapsed > frameTimeoutMs

\* C24: an entry leaves the buffer of a shard only in a step of the shard's
\* builder thread that holds the lock and scans, the frame being ready in
\* the state the step is taken in and becoming the frame the thread has in
\* hand; and a step of the scan leaves every entry it does not remove as it
\* is.
C24_RemovedOnlyWhenReady ==
    [][\A h \in Threads : \A k \in DOMAIN frameBuffer[h] :
          /\ k \notin DOMAIN frameBuffer'[h]
             => /\ frameMutex[h]
                /\ pc[h] = "scan" /\ pc'[h] = "check1"
                /\ Ready(frameBuffer[h][k])
                /\ frameCopy'[h] = frameBuffer[h][k]
                /\ \A j \in DOMAIN frameBuffer[h] \ {k} :
                      /\ j \in DOMAIN frameBuffer'[h]
                      /\ frameBuffer'[h][j] = frameBuffer[h][j]
          /\ (pc[h] = "scan" /\ <<pc[h], it[h]>>' # <<pc[h], it[h]>>
              /\ k \in DOMAIN frameBuffer'[h])
             => frameBuffer'[h][k] = frameBuffer[h][k]]_vars

\* A builder thread has removed a frame of one slice that had timed out and
\* left in its buffer a frame of one slice that has not.
C24_Witness ==
    \E h \in Threads :
        /\ pc[h] = "check1"
        /\ Len(frameCopy[h].slices) = 1
        /\ frameCopy[h].elapsed > frameTimeoutMs
        /\ \E k \in DOMAIN frameBuffer[h] :
              /\ Len(frameBuffer[h][k].slices) = 1
              /\ frameBuffer[h][k].elapsed <= frameTimeoutMs

\* ------------------------------------------------------------------------
\* C25
\* ------------------------------------------------------------------------

\* The AIS entries of a record, each <<dataId, streamStatus>>.
RecordAis(record) ==
    [i \in 1..RecordSliceCount(record) |-> RecordWord(record, 22 + i)]

\* The entries (dataId << 16 | streamStatus) of a sequence of slices.
AisOf(ss) == [i \in 1..Len(ss) |-> <<ss[i].dataId, ss[i].streamStatus>>]

\* C25: a step that adds a slice to a frame appends it after the slices the
\* frame has, which stay as they are, so that the slices of a frame are in
\* the order in which their addTimeSlice calls took the lock; and the AIS
\* entries of the record built from a frame, and of every record a sink
\* receives, are those of the slices of the frame in that order.
C25_InsertionOrderKept ==
    /\ [][\A h \in Threads : \A k \in DOMAIN frameBuffer[h] \cap DOMAIN frameBuffer'[h] :
             LET before == frameBuffer[h][k].slices
                 after == frameBuffer'[h][k].slices
             IN  /\ Len(after) \in {Len(before), Len(before) + 1}
                 /\ SubSeq(after, 1, Len(before)) = before]_vars
    /\ [](\A h \in Threads :
            builtFrame[h] # <<>>
            => RecordAis(builtFrame[h]) = AisOf(frameCopy[h].slices))
    /\ [][\A h \in Threads :
             /\ etEvents'[h] # etEvents[h]
                => RecordAis(etEvents'[h][Len(etEvents'[h])]) = AisOf(frameCopy[h].slices)
             /\ (disk'[h] # disk[h] /\ pc[h] = "file" /\ success'[h])
                => \E n \in DOMAIN disk'[h] : \E i \in DOMAIN disk'[h][n] :
                      /\ disk'[h][n][i] # FileHeader
                      /\ RecordAis(disk'[h][n][i]) = AisOf(frameCopy[h].slices)]_vars

\* A record of two slices has been emitted whose first slice is the one of
\* stream 2, submitted before the one of stream 1.
C25_Witness ==
    \E h \in Threads : \E r \in Records(h) :
        RecordAis(r) = <<<<2, 0>>, <<1, 0>>>>

\* ------------------------------------------------------------------------
\* C26
\* ------------------------------------------------------------------------

\* C26: a step that inserts a slice into an entry the buffer already has
\* leaves the timestamp, the frameNumber and the arrivalTime (here the time
\* elapsed since) of the frame as they are and appends the slice; so the
\* frameNumber of a buffered frame is that of its first slice, whatever the
\* timestamp, 0 included.
C26_FirstSliceSetsFrame ==
    /\ [][\A h \in Threads : \A k \in DOMAIN frameBuffer[h] \cap DOMAIN frameBuffer'[h] :
             Len(frameBuffer'[h][k].slices) > Len(frameBuffer[h][k].slices)
             => /\ frameBuffer'[h][k].timestamp = frameBuffer[h][k].timestamp
                /\ frameBuffer'[h][k].frameNumber = frameBuffer[h][k].frameNumber
                /\ frameBuffer'[h][k].elapsed = frameBuffer[h][k].elapsed
                /\ frameBuffer'[h][k].slices
                      = Append(frameBuffer[h][k].slices,
                               frameBuffer'[h][k].slices[Len(frameBuffer'[h][k].slices)])]_vars
    /\ [](\A h \in Threads : \A k \in DOMAIN frameBuffer[h] :
             /\ frameBuffer[h][k].timestamp = k
             /\ frameBuffer[h][k].frameNumber = frameBuffer[h][k].slices[1].frameNumber)

\* ------------------------------------------------------------------------
\* C27
\* ------------------------------------------------------------------------

\* C27: in every state, and so in every state in which the lock of the shard
\* is free, every entry of a frame buffer has at least one slice: the step
\* that creates an entry gives it exactly one slice, and no step takes
\* slices from an entry that stays in the buffer.
C27_NoEmptyEntry ==
    /\ [](\A h \in Threads : \A k \in DOMAIN frameBuffer[h] :
             frameBuffer[h][k].slices # <<>>)
    /\ [][\A h \in Threads : \A k \in DOMAIN frameBuffer'[h] :
             IF k \in DOMAIN frameBuffer[h]
             THEN Len(frameBuffer'[h][k].slices) >= Len(frameBuffer[h][k].slices)
             ELSE Len(frameBuffer'[h][k].slices) = 1]_vars

\* An entry has been created in the buffer of a shard whose builder thread,
\* the lock released, is inside a call of the file sink.
C27_Witness ==
    \E h \in Threads :
        /\ pc[h] = "file"
        /\ ~frameMutex[h]
        /\ \E k \in DOMAIN frameBuffer[h] : Len(frameBuffer[h][k].slices) = 1

\* ------------------------------------------------------------------------
\* C28
\* ------------------------------------------------------------------------

\* signalStop has cleared the running flag of builder thread h.
Stopped(h) == pc[h] # "none" /\ ~running[h]

\* C28: once signalStop has cleared running, a builder thread that is not
\* inside a sink call eventually leaves threadFunc or enters the rest of the
\* sendToET it had begun (whenever it is outside a sink call it gets on, so
\* it stays for ever in a sink call that does not return, or terminates).
\* From then on running stays false, the thread starts no encoding and
\* enters no sink call (it may finish the sendToET it is in), the sinks
\* receive nothing but what a call already entered delivers, and no frame
\* leaves its buffer: the frames buffered then are never emitted.
C28_StopsAfterSignal ==
    /\ \A h \in Threads :
          Stopped(h) ~> (pc[h] = "done" \/ pc[h] \in InSinkCall)
    /\ [][\A h \in Threads :
             Stopped(h)
             => /\ ~running'[h]
                /\ pc'[h] \in InSinkCall => pc[h] \in InSinkCall
                /\ builtFrame'[h] \in {builtFrame[h], <<>>}
                /\ etEvents'[h] # etEvents[h] => pc[h] = "et_put"
                /\ disk'[h] # disk[h] => pc[h] = "file"
                /\ \A k \in DOMAIN frameBuffer[h] :
                      /\ k \in DOMAIN frameBuffer'[h]
                      /\ Len(frameBuffer'[h][k].slices) >= Len(frameBuffer[h][k].slices)
                /\ pc[h] = "done" => pc'[h] = "done"]_vars

\* A builder thread has left threadFunc with a complete frame still in its
\* buffer and nothing in its sinks.
C28_Witness ==
    \E h \in Threads :
        /\ pc[h] = "done"
        /\ \E k \in DOMAIN frameBuffer[h] :
              Len(frameBuffer[h][k].slices) >= expectedStreamCount
        /\ Records(h) = {}

\* ------------------------------------------------------------------------
\* C29
\* ------------------------------------------------------------------------

\* C29: stop() detaches a builder thread only if the thread has not left
\* threadFunc when the wait for it ends; a thread that has left threadFunc
\* is joined and not detached, and the wait for it is then over without the
\* whole second having been waited.
C29_DetachOnlyOnTimeout ==
    [][\A h \in Threads :
          (thread[h] = "joinable" /\ thread'[h] # "joinable")
          => IF pc[h] = "done"
             THEN /\ thread'[h] = "joined"
                  /\ stopClock' - stopClock <= max_wait_ms
             ELSE thread'[h] = "detached"]_vars

\* ------------------------------------------------------------------------
\* C30
\* ------------------------------------------------------------------------

\* The bytes of the file the sink of builder h has open: its header and the
\* records written whole, and what a failed write left behind.
OpenFileBytes(h) ==
    LET file == disk[h][outputFile[h].currentFileNumber]
    IN  FileBytes(file, Len(file)) + outputFile[h].partial

\* C30: whenever the sink of a shard has a file open, after whatever opens,
\* writes, rollovers and I/O failures, currentFileSize is the number of bytes
\* written to that file since it was opened, the 56 bytes of the file header
\* included.
C30_SizeIsBytesWritten ==
    \A h \in Threads :
        outputFile[h].is_open
        => /\ outputFile[h].currentFileNumber \in DOMAIN disk[h]
           /\ outputFile[h].currentFileSize >= 56
           /\ outputFile[h].currentFileSize = OpenFileBytes(h)


\* ------------------------------------------------------------------------
\* C31
\* ------------------------------------------------------------------------

\* The file sink of builder h, as writeToFile takes it.
SinkOf(h) == [file |-> outputFile[h], disk |-> disk[h], stats |-> stats[h]]

\* The step is the return of the writeToFile call of builder h with result r.
Returned(h, r) ==
    /\ pc[h] = "file"
    /\ pc'[h] = "count"
    /\ outputFile'[h] = r.sink.file
    /\ disk'[h] = r.sink.disk
    /\ stats'[h] = r.sink.stats

\* C31: a writeToFile call in which a file operation failed (the open of the
\* first or of the next file, the write of the file header or of the record:
\* the stream is bad when it returns) returns false and has incremented
\* buildErrors; a call that returns false has not counted the frame in
\* bytesWritten; and the thread goes on with its loop.
C31_FileFailureIsBuildError ==
    [][\A h \in Threads : \A io \in IoOutcomes :
          LET r == writeToFile(SinkOf(h), builtFrame[h], io)
          IN  Returned(h, r)
              => /\ r.sink.file.fail
                    => /\ ~r.result
                       /\ stats'[h].buildErrors = stats[h].buildErrors + 1
                 /\ ~r.result => stats'[h].bytesWritten = stats[h].bytesWritten
                 /\ pc'[h] # "done"]_vars

\* ------------------------------------------------------------------------
\* C32
\* ------------------------------------------------------------------------

\* sendToET has returned false for the frame builder h has in hand because
\* et_events_new gave no event or gave one smaller than the frame.
RingFailed(h) ==
    /\ enableET
    /\ pc[h] \in {"check3", "fileGate", "file", "count", "relock"}
    /\ ~success[h]
    /\ events[h] \in {"none", "dumped"}

\* C32: when et_events_new gives no event, or gives one smaller than the
\* encoded frame, the event obtained, if any, is dumped, buildErrors is
\* incremented, and the frame goes to no sink: it is not put into the ET
\* system, and it is not written to the file either.
C32_RingFailureDropsFrame ==
    [][\A h \in Threads :
          /\ (pc[h] = "et_new" /\ pc'[h] = "check3")
             => /\ events'[h] \in {"none", "dumped"}
                /\ stats'[h].buildErrors = stats[h].buildErrors + 1
          /\ RingFailed(h)
             => /\ etEvents'[h] = etEvents[h]
                /\ disk'[h] = disk[h]]_vars

\* ------------------------------------------------------------------------
\* C33
\* ------------------------------------------------------------------------

\* The frame of key k in the buffer of builder h is ready to be built.
ReadyIn(h, k) ==
    k \in DOMAIN frameBuffer[h] /\ shouldBuild(frameBuffer[h][k])

\* Builder h is done with the frame of key k: it removed it, built it, made
\* the sink calls, and is about to resume its scan.
Processed(h, k) ==
    pc[h] = "relock" /\ frameCopy[h].timestamp = k /\ frameCopy[h].slices # <<>>

\* C33: whatever failed for the frames before it (the encoding, the ring, the
\* file), a frame that is ready while running is true is eventually removed
\* from the buffer and processed by the thread of its shard; whatever the
\* outcome for a frame, the thread resumes its scan; and a thread leaves
\* threadFunc only from its wait, having read running == false.
C33_ErrorsRecoveredLocally ==
    /\ \A k \in {in[1] : in \in SliceInputs} :
          ReadyIn(threadIndex(k), k) ~> Processed(threadIndex(k), k)
    /\ [][\A h \in Threads :
             /\ (pc[h] = "relock" /\ pc'[h] # "relock") => pc'[h] = "scan"
             /\ (pc[h] # "done" /\ pc'[h] = "done")
                => pc[h] = "wait" /\ ~running[h]]_vars

\* A builder is done with a frame while its sinks have failed for an
\* earlier frame and for this one: errors are counted for two frames.
C33_Witness ==
    \E h \in Threads :
        /\ pc[h] = "relock"
        /\ ~success[h]
        /\ frameCopy[h].slices # <<>>
        /\ stats[h].slicesProcessed = 2
        /\ Len(frameCopy[h].slices) = 1
        /\ stats[h].buildErrors >= 2
        /\ frameBuffer[h] = [k \in {} |-> AggregatedFrame]

\* ------------------------------------------------------------------------
\* C34
\* ------------------------------------------------------------------------

\* C34: when stop() sums the counters of the builder threads, every builder
\* thread has left threadFunc, so that none of them can be writing a counter
\* while it is read.
C34_CountersReadAfterExit ==
    stopPc = "collect" => \A h \in Threads : pc[h] = "done"

\* ------------------------------------------------------------------------
\* C35
\* ------------------------------------------------------------------------

\* The statistics a caller can read: FrameBuilder's own counters, as
\* printStatistics shows them, and the sums getStatistics returns.
StatisticsRead ==
    <<fbStats.framesBuilt, slicesAggregated, fbStats.buildErrors,
      fbStats.timestampErrors, fbStats.filesCreated, fbStats.bytesWritten,
      getStatistics.built, getStatistics.slices, getStatistics.errors,
      getStatistics.bytes>>

\* C35: no step makes a counter of the statistics smaller, and once stop()
\* has returned no step changes any of them.
C35_CountersFrozenAfterStop ==
    [][\A read \in {<<StatisticsRead, StatisticsRead'>>} :
          /\ \A i \in DOMAIN read[1] : read[2][i] >= read[1][i]
          /\ stopPc = "done" => read[2] = read[1]]_vars

\* ------------------------------------------------------------------------
\* C36
\* ------------------------------------------------------------------------

\* C36: when the thread has relocked frameMutex and resumes its scan, its
\* iterator is valid (the table has not been rehashed since the iterator was
\* obtained) and the keys it has yet to visit are keys of the buffer,
\* whatever was inserted while the lock was released.
C36_ScanPositionValid ==
    \A h \in Threads :
        pc[h] = "scan" => itValid[h] /\ it[h] \subseteq DOMAIN frameBuffer[h]

\* ------------------------------------------------------------------------
\* C37
\* ------------------------------------------------------------------------

\* The step is a call of builder h to the ET system: et_events_new (with the
\* et_events_dump that may follow it) or et_events_put.
RingOperation(h) ==
    pc[h] \in {"et_new", "et_put"} /\ pc'[h] # pc[h]

\* C37: a builder thread calls the ET system only while the system is open
\* and the thread's attachment is attached: never after stop() has detached
\* the attachments and closed the system.
C37_NoRingUseAfterClose ==
    [][\A h \in Threads :
          RingOperation(h) => etSystem = "open" /\ h \in etAttached]_vars

\* ------------------------------------------------------------------------
\* C38
\* ------------------------------------------------------------------------

AllStamped(frame, ts) ==
    \A i \in DOMAIN frame.slices : frame.slices[i].timestamp = ts

\* C39: every slice of a buffered frame carries exactly the timestamp the
\* frame is keyed by, and the frame is in the buffer of the shard that
\* timestamp is hashed to; so the slices of the frame a thread builds carry
\* a single timestamp, checkTimestampConsistency finds no error for it, and
\* timestampErrors stays 0, in the threads and in the FrameBuilder.
C39_OneTimestampPerFrame ==
    /\ \A h \in Threads : \A k \in DOMAIN frameBuffer[h] :
          /\ threadIndex(k) = h
          /\ AllStamped(frameBuffer[h][k], k)
    /\ \A h \in Threads :
          /\ frameCopy[h].slices # <<>>
             => /\ AllStamped(frameCopy[h], frameCopy[h].slices[1].timestamp)
                /\ ~checkTimestampConsistency(frameCopy[h])
          /\ stats[h].timestampErrors = 0
    /\ fbStats.timestampErrors = 0

\* A thread has built a frame of two slices and counted no timestamp error.
C39_Witness ==
    \E h \in Threads :
        /\ pc[h] = "check2"
        /\ Len(frameCopy[h].slices) = 2
        /\ builtFrame[h] # <<>>
        /\ stats[h].timestampErrors = 0

\* ------------------------------------------------------------------------
\* C40
\* ------------------------------------------------------------------------

\* C40: once stop() has returned, the output file of every builder thread
\* that has left threadFunc has been closed.
C40_FilesClosedAfterStop ==
    stopPc = "done"
    => \A h \in Threads : pc[h] = "done" => ~outputFile[h].is_open

====
